---------------------------- MODULE Spec2Model ----------------------------
(***************************************************************************)
(* Model of the Elo comparison plugin: the rating update, the pair         *)
(* selection, the event log and its two persisted documents, the history   *)
(* reconstruction and the comparison session of EloCompareComponent.       *)
(*                                                                         *)
(* Conventions.                                                            *)
(*  - Time is counted in whole days (the code counts milliseconds, which   *)
(*    do not fit the checker's integers): MAX_AGE is MAX_AGE_MS / 86400000. *)
(*  - An outcome is the string of the score for item a: "1", "0", "0.5".   *)
(*  - A nullable value is a sequence of length at most one: <<>> is null   *)
(*    and <<v>> is the value v.                                            *)
(*  - Indices into item lists are 0-based as in the code; the list itself  *)
(*    is a sequence, so index i is element i + 1.                          *)
(*  - An item is [id, rating, games] and a rating record [rating, games];  *)
(*    pool and last are written but never read by the modelled code.       *)
(***************************************************************************)
EXTENDS Integers, Sequences, FiniteSets, TLC

VARIABLES
    store,              \* useState<StoreType | null>
    items,              \* useState<SelectedFile[]>
    pair,               \* useState<[number, number]>
    history,            \* useState<HistoryType[]>
    selectedFiles,      \* useState<SelectedFile[] | null>
    hasInitializedRef,  \* useRef(false)
    now,                \* Date.now(), in days
    disk,               \* the vault adapter's documents, by path
    settings,           \* plugin.settings: typeConfigs (their names), defaultComparisonType
    settingTab,         \* the settings tab: what display() drew, its handlers in flight
    calls,              \* readStore and writeStore calls in flight when storage.ts is called on its own
    writes,             \* persistStore calls in flight, oldest first
    loads,              \* the two load effects of the mount: the readStore in flight, the files
    hooks,              \* useStore and useSelectedFiles: their state and loads in flight
    ops,                \* how many user actions have been handled
    last                \* the operation that produced this state: [op, arg, out]

vars == <<store, items, pair, history, selectedFiles, hasInitializedRef, now,
          disk, settings, settingTab, calls, writes, loads, hooks, ops, last>>

-----------------------------------------------------------------------------
(* Program constants *)

DEFAULT_RATING == 1000
DEFAULT_K_FACTOR == 32
MAX_EVENTS == 200
MAX_AGE == 30

(* Bounds of the model *)

\* user actions handled in one run
MaxOps == 2
\* days the clock advances past the start
MaxNow == 1
\* files of a selection
MaxFiles == 2
\* items of a list a pair is picked from
MaxItems == 3
\* games an item has played before a pick
MaxGames == 2
\* events a stored log holds beyond MAX_EVENTS
MaxExtra == 1
\* events of a replayed log
MaxLogLen == 3

-----------------------------------------------------------------------------
(* Small helpers for the encodings above *)

Null == <<>>
Some(v) == <<v>>
IsNull(x) == x = <<>>
Val(x) == x[1]

At(seq, i) == seq[i + 1]
HasIndex(seq, i) == i >= 0 /\ i < Len(seq)
Indices(seq) == 0 .. (Len(seq) - 1)

EmptyRatings == <<>>

(* A JavaScript array where the code expects a Record (readRatings returns *)
(* one for a document that holds a JSON array): an object whose own keys   *)
(* are the index strings "0", "1", ..., with a length.  No id of the model *)
(* is "length" or an index string.                                         *)
arrayObject(arr) ==
    [k \in {ToString(i - 1) : i \in DOMAIN arr} \cup {"length"} |->
        IF k = "length" THEN Len(arr)
        ELSE arr[CHOOSE i \in DOMAIN arr : ToString(i - 1) = k]]

(* Array.isArray(x), and the elements of such an array in order *)
isArray(x) == x # <<>> /\ "length" \in DOMAIN x
arrayOf(x) == [i \in 1 .. x["length"] |-> x[ToString(i - 1)]]

(* Object.keys(x): length is not enumerable *)
objectKeys(x) == IF isArray(x) THEN DOMAIN x \ {"length"} ELSE DOMAIN x

(* ratings[id] is a record *)
HasRecord(ratings, id) == id \in objectKeys(ratings)

Outcome == {"0", "0.5", "1"}

-----------------------------------------------------------------------------
(* elo-algorithm.ts *)

(* Math.round(32 * (1 - expectedScore(rA, rB))) changes value at these     *)
(* differences rB - rA: entry j is the least difference at which it is at  *)
(* least j.  (1 / (1 + 10^(d/400)) tabulated for K = 32; for integer       *)
(* ratings Math.round(r + x) = r + Math.round(x).)                         *)
EloThreshold ==
    <<-719, -523, -428, -364, -314, -273, -237, -205, -176, -149, -124,
      -100, -77, -54, -32, -10, 11, 33, 55, 78, 101, 125, 150, 177, 206,
      238, 274, 315, 365, 429, 524, 720>>

(* Math.round(K * (1 - eA)) for d = rB - rA: what a win is worth to a. *)
expectedGain(d) ==
    Cardinality({j \in 1 .. DEFAULT_K_FACTOR : d >= EloThreshold[j]})

(* An update that moves the first rating only *)
eloUpdateOneSided(rA, rB, sA) ==
    CASE sA = "1" -> <<rA + expectedGain(rB - rA), rB>>
      [] sA = "0" -> <<rA - expectedGain(rA - rB), rB>>
      [] OTHER    -> <<rA + expectedGain(rB - rA) - (DEFAULT_K_FACTOR \div 2), rB>>

(* eloUpdate(rA, rB, sA, 32) = [newA, newB] *)
eloUpdate(rA, rB, sA) ==
    CASE sA = "1" -> <<rA + expectedGain(rB - rA), rB - expectedGain(rB - rA)>>
      [] sA = "0" -> <<rA - expectedGain(rA - rB), rB + expectedGain(rA - rB)>>
      [] OTHER    -> <<rA + expectedGain(rB - rA) - (DEFAULT_K_FACTOR \div 2),
                       rB - expectedGain(rB - rA) + (DEFAULT_K_FACTOR \div 2)>>

-----------------------------------------------------------------------------
(* pickPair (helpers/pair-selection.ts; the component's pickPair is the    *)
(* same code with setPair for return)                                      *)

(* The greatest games count in place of the least *)
findMaximumGames(its) ==
    CHOOSE g \in {its[k].games : k \in DOMAIN its} :
        \A k \in DOMAIN its : g >= its[k].games

findMinimumGames(its) ==
    CHOOSE g \in {its[k].games : k \in DOMAIN its} :
        \A k \in DOMAIN its : g <= its[k].games

(* the indices of getItemsWithGames(items, targetGames) *)
getItemsWithGames(its, targetGames) ==
    {i \in Indices(its) : At(its, i).games = targetGames}

(* Position of index i in otherIndices after the (stable) sort by games. *)
sortedPosition(its, selectedIndex, i) ==
    Cardinality({j \in Indices(its) \ {selectedIndex} :
        \/ At(its, j).games < At(its, i).games
        \/ At(its, j).games = At(its, i).games /\ j < i})

(* otherIndices without the sort and the slice *)
candidatesAnyOther(its, selectedIndex) ==
    Indices(its) \ {selectedIndex}

(* candidates = otherIndices.sort(...).slice(0, Math.ceil(length / 2)) *)
candidates(its, selectedIndex) ==
    LET halfPoint == ((Len(its) - 1) + 1) \div 2
    IN  {i \in Indices(its) \ {selectedIndex} :
            sortedPosition(its, selectedIndex, i) < halfPoint}

(* Every pair pickPair can return, over the outcomes of Math.random(). *)
pickPair(its) ==
    IF Len(its) < 2 THEN {<<0, 0>>}
    ELSE LET itemsWithMinGames == getItemsWithGames(its, findMinimumGames(its))
         IN  IF itemsWithMinGames = {}
             THEN {<<a, b>> : a \in Indices(its), b \in Indices(its)} \
                  {<<a, a>> : a \in Indices(its)}
             ELSE UNION {{<<selectedIndex, otherIndex>> :
                             otherIndex \in candidates(its, selectedIndex)} :
                         selectedIndex \in itemsWithMinGames}

-----------------------------------------------------------------------------
(* helpers/elo-updates.ts *)

(* slice(0, MAX_EVENTS) in place of slice(-MAX_EVENTS): the oldest are kept *)
filterRecentEventsHead(events, nowT) ==
    LET young == SelectSeq(events, LAMBDA e : nowT - e.t < MAX_AGE)
    IN  IF Len(young) <= MAX_EVENTS THEN young
        ELSE SubSeq(young, 1, MAX_EVENTS)

(* now - e.t <= MAX_AGE_MS in place of <: an event of exactly the age limit *)
(* is kept                                                                 *)
filterRecentEventsInclusive(events, nowT) ==
    LET young == SelectSeq(events, LAMBDA e : nowT - e.t <= MAX_AGE)
    IN  IF Len(young) <= MAX_EVENTS THEN young
        ELSE SubSeq(young, Len(young) - MAX_EVENTS + 1, Len(young))

(* events.filter((e) => now - e.t < MAX_AGE_MS).slice(-MAX_EVENTS) *)
filterRecentEvents(events, nowT) ==
    LET young == SelectSeq(events, LAMBDA e : nowT - e.t < MAX_AGE)
    IN  IF Len(young) <= MAX_EVENTS THEN young
        ELSE SubSeq(young, Len(young) - MAX_EVENTS + 1, Len(young))

(* A table built from the two records alone, without the spread of the old *)
updateStoreRatingsAlone(ratings, itemA, itemB, newRatingA, newRatingB) ==
    [id \in {itemA.id, itemB.id} |->
        IF id = itemB.id
        THEN [rating |-> newRatingB, games |-> itemB.games + 1]
        ELSE [rating |-> newRatingA, games |-> itemA.games + 1]]

(* updateStoreRatings / handleWin lines 838-850: both assignments, in order *)
updateStoreRatings(ratings, itemA, itemB, newRatingA, newRatingB) ==
    LET withA == [id \in objectKeys(ratings) \cup {itemA.id} |->
                     IF id = itemA.id
                     THEN [rating |-> newRatingA, games |-> itemA.games + 1]
                     ELSE ratings[id]]
    IN  [id \in DOMAIN withA \cup {itemB.id} |->
            IF id = itemB.id
            THEN [rating |-> newRatingB, games |-> itemB.games + 1]
            ELSE withA[id]]

-----------------------------------------------------------------------------
(* reconstructHistoryFromEvents / loadHistoryFromEvents *)

(* stored?.rating ?? DEFAULT_RATING, stored?.games ?? 0 *)
storedOrDefault(ratings, id) ==
    IF HasRecord(ratings, id) THEN ratings[id]
    ELSE [rating |-> DEFAULT_RATING, games |-> 0]

(* byId: the working copy of every selected file, seeded from the store *)
seedById(files, ratings) ==
    [id \in {files[k].id : k \in DOMAIN files} |-> storedOrDefault(ratings, id)]

(* A replay that passes over a draw as it passes over an event of an      *)
(* absent item: no entry, and no change to the working copies              *)
RECURSIVE replayEventsSkippingDraws(_, _, _)
replayEventsSkippingDraws(events, byId, entries) ==
    IF events = <<>> THEN [byId |-> byId, entries |-> entries]
    ELSE LET ev == Head(events)
         IN  IF ~(ev.a \in DOMAIN byId /\ ev.b \in DOMAIN byId) \/ ev.s = "0.5"
             THEN replayEventsSkippingDraws(Tail(events), byId, entries)
             ELSE LET oldRatingA == byId[ev.a].rating
                      oldRatingB == byId[ev.b].rating
                      new == eloUpdate(oldRatingA, oldRatingB, ev.s)
                      entry == IF ev.s = "1"
                               THEN [winner |-> ev.a, loser |-> ev.b,
                                     winnerOldRating |-> oldRatingA,
                                     winnerNewRating |-> new[1],
                                     loserOldRating |-> oldRatingB,
                                     loserNewRating |-> new[2]]
                               ELSE [winner |-> ev.b, loser |-> ev.a,
                                     winnerOldRating |-> oldRatingB,
                                     winnerNewRating |-> new[2],
                                     loserOldRating |-> oldRatingA,
                                     loserNewRating |-> new[1]]
                      after == [id \in DOMAIN byId |->
                                   IF id = ev.a
                                   THEN [rating |-> new[1],
                                         games |-> byId[id].games + 1]
                                   ELSE IF id = ev.b
                                   THEN [rating |-> new[2],
                                         games |-> byId[id].games + 1]
                                   ELSE byId[id]]
                  IN  replayEventsSkippingDraws(Tail(events), after,
                                                Append(entries, entry))

(* A replay that takes an id it does not know for a new item at the        *)
(* default rating, where the code skips the event                          *)
RECURSIVE replayEventsDefaulting(_, _, _)
replayEventsDefaulting(events, byId, entries) ==
    IF events = <<>> THEN [byId |-> byId, entries |-> entries]
    ELSE LET ev == Head(events)
             known == [id \in DOMAIN byId \cup {ev.a, ev.b} |->
                          IF id \in DOMAIN byId THEN byId[id]
                          ELSE [rating |-> DEFAULT_RATING, games |-> 0]]
             new == eloUpdate(known[ev.a].rating, known[ev.b].rating, ev.s)
             entry == IF ev.s = "1"
                      THEN <<[winner |-> ev.a, loser |-> ev.b,
                              winnerOldRating |-> known[ev.a].rating,
                              winnerNewRating |-> new[1],
                              loserOldRating |-> known[ev.b].rating,
                              loserNewRating |-> new[2]]>>
                      ELSE IF ev.s = "0"
                      THEN <<[winner |-> ev.b, loser |-> ev.a,
                              winnerOldRating |-> known[ev.b].rating,
                              winnerNewRating |-> new[2],
                              loserOldRating |-> known[ev.a].rating,
                              loserNewRating |-> new[1]]>>
                      ELSE <<>>
             afterA == [known EXCEPT ![ev.a] =
                           [rating |-> new[1], games |-> @.games + 1]]
             afterB == [afterA EXCEPT ![ev.b] =
                           [rating |-> new[2], games |-> @.games + 1]]
         IN  replayEventsDefaulting(Tail(events), afterB, entries \o entry)

(* One pass of the replay loop: the working map and the entries so far. *)
RECURSIVE replayEvents(_, _, _)
replayEvents(events, byId, entries) ==
    IF events = <<>> THEN [byId |-> byId, entries |-> entries]
    ELSE LET ev == Head(events)
         IN  IF ~(ev.a \in DOMAIN byId /\ ev.b \in DOMAIN byId)
             THEN replayEvents(Tail(events), byId, entries)
             ELSE LET oldRatingA == byId[ev.a].rating
                      oldRatingB == byId[ev.b].rating
                      new == eloUpdate(oldRatingA, oldRatingB, ev.s)
                      entry == IF ev.s = "1"
                               THEN <<[winner |-> ev.a, loser |-> ev.b,
                                       winnerOldRating |-> oldRatingA,
                                       winnerNewRating |-> new[1],
                                       loserOldRating |-> oldRatingB,
                                       loserNewRating |-> new[2]]>>
                               ELSE IF ev.s = "0"
                               THEN <<[winner |-> ev.b, loser |-> ev.a,
                                       winnerOldRating |-> oldRatingB,
                                       winnerNewRating |-> new[2],
                                       loserOldRating |-> oldRatingA,
                                       loserNewRating |-> new[1]]>>
                               ELSE <<>>
                      \* A.rating = newRatingA; B.rating = newRatingB;
                      \* A.games += 1; B.games += 1   (A and B alias when a = b)
                      afterA == [byId EXCEPT ![ev.a] =
                                    [rating |-> new[1], games |-> @.games]]
                      afterB == [afterA EXCEPT ![ev.b] =
                                    [rating |-> new[2], games |-> @.games]]
                      gamesA == [afterB EXCEPT ![ev.a].games = @ + 1]
                      gamesB == [gamesA EXCEPT ![ev.b].games = @ + 1]
                  IN  replayEvents(Tail(events), gamesB, entries \o entry)

reconstructHistoryFromEvents(files, st) ==
    IF files = <<>> THEN <<>>
    ELSE IF st.events = <<>> THEN <<>>
    ELSE replayEvents(st.events, seedById(files, st.ratings), <<>>).entries

-----------------------------------------------------------------------------
(* storage.ts: documents and paths *)

(* A document of the adapter: absent, text that JSON.parse rejects, or the  *)
(* JSON value its text parses to (an array, an object, or a scalar).        *)
Doc(kind, arr, obj) == [kind |-> kind, arr |-> arr, obj |-> obj]
AbsentDoc == Doc("absent", <<>>, <<>>)
CorruptDoc == Doc("corrupt", <<>>, <<>>)
NumberDoc == Doc("number", <<>>, <<>>)
StringDoc == Doc("string", <<>>, <<>>)
NullDoc == Doc("null", <<>>, <<>>)

(* JSON.stringify(events, null, 2) and JSON.stringify(ratings, null, 2):  *)
(* an array is written as a JSON array, any other object as a JSON object *)
stringifyEvents(events) == Doc("array", events, <<>>)
stringifyRatings(ratings) ==
    IF isArray(ratings) THEN Doc("array", arrayOf(ratings), <<>>)
    ELSE Doc("object", <<>>, ratings)

(* JSON.parse of a document that holds an object or an array *)
parsedObject(doc) ==
    IF doc.kind = "array" THEN arrayObject(doc.arr) ELSE doc.obj

getEventsPath(comparisonType) == "events-" \o comparisonType \o ".json"
getRatingsPath(comparisonType) == "ratings-" \o comparisonType \o ".json"
oldEventsPath == "events.json"
oldRatingsPath == "ratings.json"

exists(dsk, path) == dsk[path].kind # "absent"
parses(dsk, path) == dsk[path].kind # "corrupt"

(* readEvents: [] unless the document exists, parses and is an array *)
readEvents(dsk, comparisonType) ==
    LET doc == dsk[getEventsPath(comparisonType)]
    IN  IF doc.kind = "array" THEN doc.arr ELSE <<>>

(* readRatings: {} unless the document exists, parses and is a non-null   *)
(* object (typeof data === 'object': an array passes and is returned)     *)
readRatings(dsk, comparisonType) ==
    LET doc == dsk[getRatingsPath(comparisonType)]
    IN  IF doc.kind \in {"object", "array"} THEN parsedObject(doc)
        ELSE EmptyRatings

(* Object.keys(x).length > 0 *)
hasKeys(x) == objectKeys(x) # {}

writeEvents(dsk, events, comparisonType) ==
    [dsk EXCEPT ![getEventsPath(comparisonType)] = stringifyEvents(events)]

writeRatings(dsk, ratings, comparisonType) ==
    [dsk EXCEPT ![getRatingsPath(comparisonType)] = stringifyRatings(ratings)]

(* writeStore when neither write rejects *)
writeStore(dsk, st, comparisonType) ==
    writeRatings(writeEvents(dsk, st.events, comparisonType),
                 st.ratings, comparisonType)

StoreOf(events, ratings) == [events |-> events, ratings |-> ratings]
EmptyStore == StoreOf(<<>>, EmptyRatings)

(* A readStore in flight: the await it is at and what it has read so far.  *)
(* Its positions are the adapter calls that read or write a document:      *)
(* exists and read of one path are one position, and so are mkdir and      *)
(* write.                                                                  *)
(*   events, ratings            the reads of lines 81-82                   *)
(*   legacyEvents               exists, read and JSON.parse of 99-102      *)
(*   migrateEvents              writeEvents of line 103                    *)
(*   legacyRatings              exists, read and JSON.parse of 106-109     *)
(*   migrateRatings             writeRatings of line 110                   *)
(*   rereadEvents, rereadRatings the reads of lines 114-115                *)
ReadTask(comparisonType) ==
    [type |-> comparisonType, pc |-> "events",
     events |-> <<>>, ratings |-> EmptyRatings]

(* return { version: 1, events, ratings } and the return of the empty     *)
(* store (lines 128-132)                                                   *)
returns(task, events, ratings) ==
    [task EXCEPT !.pc = "done", !.events = events, !.ratings = ratings]
returnsEmpty(task) == returns(task, <<>>, EmptyRatings)

(* Lines 106-112: where the migration block goes once it has read the      *)
(* legacy ratings.  "throws": JSON.parse throws and the catch of line 123  *)
(* ends the block.                                                         *)
legacyRatingsPc(dsk) ==
    LET oldR == dsk[oldRatingsPath]
    IN  IF oldR.kind = "corrupt" THEN "throws"
        ELSE IF oldR.kind \in {"object", "array"} /\ hasKeys(parsedObject(oldR))
        THEN "migrateRatings"
        ELSE "rereadEvents"

(* Lines 99-105: where the migration block goes once it has read the       *)
(* legacy events                                                           *)
migrateOldStorage(dsk) ==
    LET oldE == dsk[oldEventsPath]
    IN  IF oldE.kind = "corrupt" THEN "throws"
        ELSE IF oldE.kind = "array" /\ Len(oldE.arr) > 0 THEN "migrateEvents"
        ELSE "legacyRatings"

(* A test that takes the documents read only when both hold data *)
holdsDataBoth(events, ratings) == Len(events) > 0 /\ hasKeys(ratings)

(* events.length > 0 || Object.keys(ratings).length > 0 (lines 85, 116) *)
holdsData(events, ratings) == Len(events) > 0 \/ hasKeys(ratings)

goesTo(task, pc) ==
    IF pc = "throws" THEN returnsEmpty(task) ELSE [task EXCEPT !.pc = pc]

(* readStore from one of its positions to the next: the task and the disk  *)
(* it leaves                                                               *)
readStoreStep(task, dsk) ==
    CASE task.pc = "events" ->
            [task |-> [task EXCEPT !.events = readEvents(dsk, task.type),
                                   !.pc = "ratings"],
             disk |-> dsk]
      [] task.pc = "ratings" ->
            LET ratings == readRatings(dsk, task.type)
            IN  [task |-> IF holdsData(task.events, ratings)
                          THEN returns(task, task.events, ratings)
                          ELSE IF task.type = "default"
                          THEN [task EXCEPT !.pc = "legacyEvents"]
                          ELSE returnsEmpty(task),
                 disk |-> dsk]
      [] task.pc = "legacyEvents" ->
            [task |-> goesTo(task, migrateOldStorage(dsk)),
             disk |-> dsk]
      [] task.pc = "migrateEvents" ->
            [task |-> [task EXCEPT !.pc = "legacyRatings"],
             disk |-> writeEvents(dsk, dsk[oldEventsPath].arr, "default")]
      [] task.pc = "legacyRatings" ->
            [task |-> goesTo(task, legacyRatingsPc(dsk)),
             disk |-> dsk]
      [] task.pc = "migrateRatings" ->
            [task |-> [task EXCEPT !.pc = "rereadEvents"],
             disk |-> writeRatings(dsk, parsedObject(dsk[oldRatingsPath]),
                                   "default")]
      [] task.pc = "rereadEvents" ->
            [task |-> [task EXCEPT !.events = readEvents(dsk, task.type),
                                   !.pc = "rereadRatings"],
             disk |-> dsk]
      [] OTHER ->
            LET ratings == readRatings(dsk, task.type)
            IN  [task |-> IF holdsData(task.events, ratings)
                          THEN returns(task, task.events, ratings)
                          ELSE returnsEmpty(task),
                 disk |-> dsk]

RECURSIVE readStoreFrom(_, _)
readStoreFrom(task, dsk) ==
    IF task.pc = "done"
    THEN [store |-> StoreOf(task.events, task.ratings), disk |-> dsk]
    ELSE LET r == readStoreStep(task, dsk)
         IN  readStoreFrom(r.task, r.disk)

(* readStore while nothing else touches the documents: the store it        *)
(* returns and the disk it leaves                                          *)
readStore(dsk, comparisonType) == readStoreFrom(ReadTask(comparisonType), dsk)

(* A deleteTypeStorage in flight: the adapter call it is at *)
DeleteTask(typeName) ==
    [op |-> "deleteType", type |-> typeName, to |-> "", pc |-> "existsEvents"]

(* deleteTypeStorage from one adapter call to the next: the task and the   *)
(* disk it leaves; at "returned" it has returned.  A remove of a document  *)
(* that is gone by the time it runs resolves or rejects, as the adapter    *)
(* has it; the rejection is caught at line 157 and ends the function.      *)
deleteTypeStorageStep(task, dsk, resolves) ==
    LET eventsPath == getEventsPath(task.type)
        ratingsPath == getRatingsPath(task.type)
        at(pc) == [task EXCEPT !.pc = pc]
    IN  CASE task.pc = "existsEvents" ->
                [task |-> IF exists(dsk, eventsPath) THEN at("removeEvents")
                          ELSE at("existsRatings"),
                 disk |-> dsk]
          [] task.pc = "removeEvents" ->
                IF exists(dsk, eventsPath)
                THEN [task |-> at("existsRatings"),
                      disk |-> [dsk EXCEPT ![eventsPath] = AbsentDoc]]
                ELSE [task |-> IF resolves THEN at("existsRatings")
                               ELSE at("returned"),
                      disk |-> dsk]
          [] task.pc = "existsRatings" ->
                [task |-> IF exists(dsk, ratingsPath) THEN at("removeRatings")
                          ELSE at("returned"),
                 disk |-> dsk]
          [] OTHER ->
                [task |-> at("returned"),
                 disk |-> [dsk EXCEPT ![ratingsPath] = AbsentDoc]]

RECURSIVE deleteTypeStorageFrom(_, _)
deleteTypeStorageFrom(task, dsk) ==
    IF task.pc = "returned" THEN dsk
    ELSE LET r == deleteTypeStorageStep(task, dsk, TRUE)
         IN  deleteTypeStorageFrom(r.task, r.disk)

(* deleteTypeStorage while nothing else touches the documents *)
deleteTypeStorage(dsk, comparisonType) ==
    deleteTypeStorageFrom(DeleteTask(comparisonType), dsk)

-----------------------------------------------------------------------------
-----------------------------------------------------------------------------
(* The session of EloCompareComponent: what the handlers share *)

(* last: the operation that produced the state, its argument and what it   *)
(* did.  For a handler of the session, out.acted tells that it got past    *)
(* its early returns and out.merged that the init effect merged in the     *)
(* render that followed; for a read, out is the store returned.            *)
Op(op, arg, out) == [op |-> op, arg |-> arg, out |-> out]
Out(acted, merged) == [acted |-> acted, merged |-> merged]

(* store?.events.length, the init effect's second dependency *)
eventsLength(st) == IF IsNull(st) THEN -1 ELSE Len(Val(st).events)

(* selectedFiles.map(file => ({...file, rating: stored?.rating ?? DEFAULT,  *)
(* games: stored?.games ?? 0}))                                            *)
itemsWithRatings(files, ratings) ==
    [k \in DOMAIN files |->
        [id |-> files[k].id,
         rating |-> storedOrDefault(ratings, files[k].id).rating,
         games |-> storedOrDefault(ratings, files[k].id).games]]

(* The init effect (lines 927-949), run after a render in which one of its *)
(* dependencies [selectedFiles, store?.events.length] changed: the items,  *)
(* history and flag it leaves.                                             *)
initEffect(depsChanged, st, files, its, hist, initialized) ==
    IF /\ depsChanged
       /\ ~IsNull(st)
       /\ ~IsNull(files)
       /\ Len(Val(files)) > 0
       /\ ~initialized
    THEN [items |-> itemsWithRatings(Val(files), Val(st).ratings),
          history |-> reconstructHistoryFromEvents(Val(files), Val(st)),
          initialized |-> TRUE,
          ran |-> TRUE]
    ELSE [items |-> its, history |-> hist, initialized |-> initialized,
          ran |-> FALSE]

(* persistStore(next) up to its first await: the write it leaves in flight. *)
(* then: what the caller does once persistStore resolves.                  *)
(* files: the selectedFiles of the caller's closure.                       *)
(* shared: the ids whose record in next.ratings is the very object the     *)
(* store in memory holds for the id.  persistStore is handed the store it  *)
(* sets, so these are all of them; JSON.stringify reads the records when   *)
(* writeRatings gets to its write.                                         *)
WriteTask(st, then, files) ==
    [store |-> st, pc |-> "events", then |-> then, files |-> files,
     shared |-> objectKeys(st.ratings)]

(* The tasks in flight once the store in memory holds new record objects   *)
(* for ids (a handler that spreads the old table and assigns new records)  *)
unshare(tasks, ids) ==
    [k \in DOMAIN tasks |-> [tasks[k] EXCEPT !.shared = @ \ ids]]

(* The tasks in flight once the store in memory is another table           *)
unshareAll(tasks) ==
    [k \in DOMAIN tasks |-> [tasks[k] EXCEPT !.shared = {}]]

(* The tasks in flight once the records of the store in memory have been   *)
(* assigned to in place and hold what table holds                          *)
assignedInPlace(tasks, table) ==
    [k \in DOMAIN tasks |->
        [tasks[k] EXCEPT !.store.ratings =
            [id \in DOMAIN tasks[k].store.ratings |->
                IF id \in tasks[k].shared THEN table[id]
                ELSE tasks[k].store.ratings[id]]]]

-----------------------------------------------------------------------------
(* The handlers *)

(* What handleWin computes from its closure (lines 811-882) *)
winOutcome(st, its, pr, winnerIndex, nowT) ==
    LET aIdx == pr[1]
        bIdx == pr[2]
        aWins == IF winnerIndex = aIdx THEN "1" ELSE "0"
        a == At(its, aIdx)
        b == At(its, bIdx)
        new == eloUpdate(a.rating, b.rating, aWins)
        newItems == [k \in DOMAIN its |->
                        IF k - 1 = aIdx
                        THEN [its[k] EXCEPT !.rating = new[1], !.games = @ + 1]
                        ELSE IF k - 1 = bIdx
                        THEN [its[k] EXCEPT !.rating = new[2], !.games = @ + 1]
                        ELSE its[k]]
        entry == IF winnerIndex = aIdx
                 THEN [winner |-> a.id, loser |-> b.id,
                       winnerOldRating |-> a.rating, winnerNewRating |-> new[1],
                       loserOldRating |-> b.rating, loserNewRating |-> new[2]]
                 ELSE [winner |-> b.id, loser |-> a.id,
                       winnerOldRating |-> b.rating, winnerNewRating |-> new[2],
                       loserOldRating |-> a.rating, loserNewRating |-> new[1]]
        newEvent == [t |-> nowT, a |-> a.id, b |-> b.id, s |-> aWins]
        recentEvents == filterRecentEvents(Append(st.events, newEvent), nowT)
    IN  [items |-> newItems,
         entry |-> entry,
         event |-> newEvent,
         new |-> new,
         store |-> StoreOf(recentEvents,
                           updateStoreRatings(st.ratings, a, b, new[1], new[2]))]

(* if (!store) return; ... if (!a || !b) return; *)
handleWinReturns(st, its, pr) ==
    IsNull(st) \/ ~HasIndex(its, pr[1]) \/ ~HasIndex(its, pr[2])

(* handleWin past its early returns (lines 820-886).  The render that      *)
(* follows runs the init effect when the length of the log changed.        *)
(* pickPair() reads the items of the handler's closure.                    *)
handleWinRecords(winnerIndex) ==
    LET w == winOutcome(Val(store), items, pair, winnerIndex, now)
        eff == initEffect(Len(w.store.events) # Len(Val(store).events),
                          Some(w.store), selectedFiles, w.items,
                          <<w.entry>> \o history, hasInitializedRef)
    IN  /\ store' = Some(w.store)
        /\ items' = eff.items
        /\ history' = eff.history
        /\ hasInitializedRef' = eff.initialized
        /\ writes' = Append(unshare(writes, {w.event.a, w.event.b}),
                            WriteTask(w.store, "none", Null))
        /\ pair' \in pickPair(items)
        /\ last' = Op("recordOutcome", winnerIndex,
                      [acted |-> TRUE, merged |-> eff.ran, event |-> w.event])

(* A handleWin that picks the next pair before it looks at the store *)
HandleWinPicksFirst(winnerIndex) ==
    /\ ops < MaxOps
    /\ winnerIndex \in {pair[1], pair[2]}
    /\ ops' = ops + 1
    /\ UNCHANGED <<selectedFiles, now, disk, settings, settingTab, calls, hooks, loads>>
    /\ IF handleWinReturns(store, items, pair)
       THEN /\ UNCHANGED <<store, items, history, hasInitializedRef, writes>>
            /\ pair' \in pickPair(items)
            /\ last' = Op("recordOutcome", winnerIndex, Out(FALSE, FALSE))
       ELSE handleWinRecords(winnerIndex)

(* handleWin(winnerIndex): recordOutcome.  The buttons pass pair[0] or     *)
(* pair[1].                                                                *)
HandleWin(winnerIndex) ==
    /\ ops < MaxOps
    /\ winnerIndex \in {pair[1], pair[2]}
    /\ ops' = ops + 1
    /\ UNCHANGED <<selectedFiles, now, disk, settings, settingTab, calls, hooks, loads>>
    /\ IF handleWinReturns(store, items, pair)
       THEN /\ UNCHANGED <<store, items, pair, history, hasInitializedRef, writes>>
            /\ last' = Op("recordOutcome", winnerIndex, Out(FALSE, FALSE))
       ELSE handleWinRecords(winnerIndex)

(* The Skip button: pickPair() *)
Skip ==
    /\ ops < MaxOps
    /\ ops' = ops + 1
    /\ pair' \in pickPair(items)
    /\ last' = Op("skip", 0, Out(TRUE, FALSE))
    /\ UNCHANGED <<store, items, history, selectedFiles, hasInitializedRef,
                   now, disk, settings, settingTab, calls, hooks, writes, loads>>

(* removeItem without its setPair *)
RemoveItemKeepsPair(index) ==
    /\ ops < MaxOps
    /\ index \in {pair[1], pair[2]}
    /\ HasIndex(items, index)
    /\ ops' = ops + 1
    /\ LET keep == {k \in DOMAIN items : k - 1 # index}
       IN  items' = [k \in 1 .. Cardinality(keep) |->
                        items[CHOOSE j \in keep :
                                Cardinality({m \in keep : m < j}) = k - 1]]
    /\ last' = Op("removeItem", index, Out(TRUE, FALSE))
    /\ UNCHANGED <<store, pair, history, selectedFiles, hasInitializedRef, now,
                   disk, settings, settingTab, calls, hooks, writes, loads>>

(* removeItem(index).  The Remove button of a card passes pair[0] or        *)
(* pair[1]; DisplayEloItem renders it only when the card has an item       *)
(* (lines 1435-1456: item && ...).                                         *)
RemoveItem(index) ==
    /\ ops < MaxOps
    /\ index \in {pair[1], pair[2]}
    /\ HasIndex(items, index)
    /\ ops' = ops + 1
    /\ LET keep == {k \in DOMAIN items : k - 1 # index}
           newItems == [k \in 1 .. Cardinality(keep) |->
                           items[CHOOSE j \in keep :
                                   Cardinality({m \in keep : m < j}) = k - 1]]
       IN  /\ items' = newItems
           /\ pair' = IF Len(newItems) >= 2 THEN <<0, 1>> ELSE <<0, 0>>
    /\ last' = Op("removeItem", index, Out(TRUE, FALSE))
    /\ UNCHANGED <<store, history, selectedFiles, hasInitializedRef, now, disk,
                   settings, settingTab, calls, hooks, writes, loads>>

(* The readStore of the mount once it has returned *)
StoreRead == returnsEmpty(ReadTask("default"))

(* The store load effect (lines 558-578): its readStore gets from one      *)
(* position to the next; when it returns, setStore(storeData)              *)
StoreLoaded ==
    /\ loads.store.pc # "done"
    /\ LET r == readStoreStep(loads.store, disk)
           returned == r.task.pc = "done"
           storeData == StoreOf(r.task.events, r.task.ratings)
           eff == initEffect(eventsLength(store) # Len(storeData.events),
                             Some(storeData), selectedFiles, items, history,
                             hasInitializedRef)
       IN  /\ disk' = r.disk
           /\ IF returned
              THEN /\ loads' = [loads EXCEPT !.store = StoreRead]
                   /\ store' = Some(storeData)
                   /\ items' = eff.items
                   /\ history' = eff.history
                   /\ hasInitializedRef' = eff.initialized
                   /\ writes' = unshareAll(writes)
                   /\ last' = Op("storeLoaded", 0, Out(TRUE, eff.ran))
              ELSE /\ loads' = [loads EXCEPT !.store = r.task]
                   /\ UNCHANGED <<store, items, history, hasInitializedRef,
                                  writes>>
                   /\ last' = Op("readStore", loads.store.pc, Out(FALSE, FALSE))
    /\ UNCHANGED <<pair, selectedFiles, now, settings, settingTab, calls, hooks, ops>>

(* The files load effect (lines 901-922) completing: setSelectedFiles(files) *)
FilesLoaded(files) ==
    /\ loads.files = "pending"
    /\ loads' = [loads EXCEPT !.files = "done"]
    /\ selectedFiles' = Some(files)
    /\ LET eff == initEffect(TRUE, store, Some(files), items, history,
                             hasInitializedRef)
       IN  /\ items' = eff.items
           /\ history' = eff.history
           /\ hasInitializedRef' = eff.initialized
           /\ last' = Op("filesLoaded", 0, Out(TRUE, eff.ran))
    /\ UNCHANGED <<store, pair, now, disk, settings, settingTab, calls, hooks, writes,
                   ops>>

(* reset() from the confirmation to its await: persistStore(resetStore)    *)
(* sets the store and starts the write; the rest runs when the write       *)
(* settles.                                                                *)
resetPersists(confirmed) ==
    LET eff == initEffect(eventsLength(store) # 0, Some(EmptyStore),
                          selectedFiles, items, history, hasInitializedRef)
    IN  /\ store' = Some(EmptyStore)
        /\ writes' = Append(unshareAll(writes),
                            WriteTask(EmptyStore, "reset", selectedFiles))
        /\ items' = eff.items
        /\ history' = eff.history
        /\ hasInitializedRef' = eff.initialized
        /\ last' = Op("reset", confirmed, Out(TRUE, eff.ran))

(* A reset that does not look at what confirm() returned *)
ResetClickUnasked(confirmed) ==
    /\ ops < MaxOps
    /\ ~IsNull(selectedFiles)
    /\ ops' = ops + 1
    /\ UNCHANGED <<pair, selectedFiles, now, disk, settings, settingTab, calls, hooks, loads>>
    /\ resetPersists(confirmed)

(* The Reset button, rendered once selectedFiles is set: reset() up to its  *)
(* await                                                                   *)
ResetClick(confirmed) ==
    /\ ops < MaxOps
    /\ ~IsNull(selectedFiles)
    /\ ops' = ops + 1
    /\ UNCHANGED <<pair, selectedFiles, now, disk, settings, settingTab, calls, hooks, loads>>
    /\ IF ~confirmed
       THEN /\ UNCHANGED <<store, items, history, hasInitializedRef, writes>>
            /\ last' = Op("reset", FALSE, Out(FALSE, FALSE))
       ELSE resetPersists(confirmed)

(* reset() after its await (lines 964-980) *)
resetItems(files) ==
    [k \in DOMAIN files |->
        [id |-> files[k].id, rating |-> DEFAULT_RATING, games |-> 0]]

RemoveAt(seq, i) == SubSeq(seq, 1, i - 1) \o SubSeq(seq, i + 1, Len(seq))

(* One await of a persistStore in flight settling, leaving the disk as    *)
(* written.  A rejection ends writeStore; persistStore catches it and      *)
(* resolves.  When persistStore has resolved and resumes is true, the      *)
(* reset that awaited it runs to its end (lines 964-980).                  *)
settles(i, ok, written, resumes) ==
    /\ i \in DOMAIN writes
    /\ LET task == writes[i]
           done == ~ok \/ task.pc = "ratings"
       IN  /\ disk' = IF ok THEN written ELSE disk
           /\ writes' = IF done THEN RemoveAt(writes, i)
                        ELSE IF task.pc = "events"
                        THEN [writes EXCEPT ![i].pc = "stringify"]
                        ELSE [writes EXCEPT ![i].pc = "ratings",
                                            ![i].shared = {}]
           /\ IF done /\ resumes /\ task.then = "reset"
              THEN /\ items' = IF ~IsNull(task.files) /\ Len(Val(task.files)) > 0
                               THEN resetItems(Val(task.files)) ELSE items
                   /\ history' = <<>>
                   /\ hasInitializedRef' = FALSE
              ELSE UNCHANGED <<items, history, hasInitializedRef>>
           /\ last' = Op("write", [pc |-> task.pc, ok |-> ok, done |-> done,
                                   then |-> task.then], Out(TRUE, FALSE))
    /\ UNCHANGED <<store, pair, selectedFiles, now, settings, settingTab, calls, hooks,
                   loads, ops>>

(* A writeStore that awaits writeRatings first and writeEvents second *)
WriteStepRatingsFirst(i, ok) ==
    settles(i, ok,
            IF writes[i].pc = "events"
            THEN writeRatings(disk, writes[i].store.ratings, "default")
            ELSE IF writes[i].pc = "ratings"
            THEN writeEvents(disk, writes[i].store.events, "default")
            ELSE disk,
            TRUE)

(* A persistStore that lets the rejection through: the reset that awaited   *)
(* it stops in its catch                                                   *)
WriteStepThrows(i, ok) ==
    settles(i, ok,
            IF writes[i].pc = "events"
            THEN writeEvents(disk, writes[i].store.events, "default")
            ELSE IF writes[i].pc = "ratings"
            THEN writeRatings(disk, writes[i].store.ratings, "default")
            ELSE disk,
            ok)

(* One await of a persistStore in flight settling: it resolves (ok) or     *)
(* rejects.  writeStore awaits writeEvents, then writeRatings.  At         *)
(* "events" the events document is written (mkdir and write; the array is  *)
(* assigned to by nothing); at "stringify" the mkdir of writeRatings has   *)
(* settled and JSON.stringify(ratings) reads the records as they are then; *)
(* at "ratings" the text is written.                                       *)
WriteStep(i, ok) ==
    settles(i, ok,
            IF writes[i].pc = "events"
            THEN writeEvents(disk, writes[i].store.events, "default")
            ELSE IF writes[i].pc = "ratings"
            THEN writeRatings(disk, writes[i].store.ratings, "default")
            ELSE disk,
            TRUE)

(* Date.now() moving on by a day *)
Tick ==
    /\ now < MAX_AGE + MaxNow
    /\ now' = now + 1
    /\ last' = Op("tick", 0, Out(TRUE, FALSE))
    /\ UNCHANGED <<store, items, pair, history, selectedFiles,
                   hasInitializedRef, disk, settings, settingTab, calls, hooks, writes, loads, ops>>

(* recomputeFromEvents: the replay loop (lines 635-673) over the working   *)
(* copies byId of the selected files and the table newRatings              *)
bumpPair(table, idA, idB, new) ==
    LET ratingA == [table EXCEPT ![idA] = [rating |-> new[1], games |-> @.games]]
        ratingB == [ratingA EXCEPT ![idB] = [rating |-> new[2], games |-> @.games]]
        gamesA == [ratingB EXCEPT ![idA].games = @ + 1]
    IN  [gamesA EXCEPT ![idB].games = @ + 1]

RECURSIVE recomputeReplay(_, _, _)
recomputeReplay(events, byId, newRatings) ==
    IF events = <<>> THEN [byId |-> byId, newRatings |-> newRatings]
    ELSE LET ev == Head(events)
         IN  IF ~(ev.a \in DOMAIN byId /\ ev.b \in DOMAIN byId)
             THEN IF HasRecord(newRatings, ev.a) /\ HasRecord(newRatings, ev.b)
                  THEN recomputeReplay(Tail(events), byId,
                           bumpPair(newRatings, ev.a, ev.b,
                                    eloUpdate(newRatings[ev.a].rating,
                                              newRatings[ev.b].rating, ev.s)))
                  ELSE recomputeReplay(Tail(events), byId, newRatings)
             ELSE recomputeReplay(Tail(events),
                      bumpPair(byId, ev.a, ev.b,
                               eloUpdate(byId[ev.a].rating, byId[ev.b].rating,
                                         ev.s)),
                      newRatings)

(* The store and items recomputeFromEvents leaves (lines 606-724) *)
recomputeFromEvents(st, files) ==
    LET byId0 == seedById(files, st.ratings)
        newRatings0 == [id \in objectKeys(st.ratings) \cup DOMAIN byId0 |->
                           IF HasRecord(st.ratings, id) THEN st.ratings[id]
                           ELSE byId0[id]]
        r == recomputeReplay(st.events, byId0, newRatings0)
        newRatings == [id \in DOMAIN r.newRatings |->
                          IF id \in DOMAIN r.byId THEN r.byId[id]
                          ELSE r.newRatings[id]]
    IN  [store |-> StoreOf(st.events, newRatings),
         assigned |-> r.newRatings,
         items |-> [k \in DOMAIN files |->
                       [id |-> files[k].id,
                        rating |-> r.byId[files[k].id].rating,
                        games |-> r.byId[files[k].id].games]],
         byId |-> r.byId]

(* The Recompute button, rendered once selectedFiles is set:               *)
(* recomputeFromEvents(true)                                               *)
Recompute ==
    /\ ops < MaxOps
    /\ ~IsNull(selectedFiles)
    /\ ops' = ops + 1
    /\ last' = Op("recompute", 0, Out(TRUE, FALSE))
    /\ UNCHANGED <<pair, history, selectedFiles, hasInitializedRef, now, disk,
                   settings, settingTab, calls, hooks, loads>>
    /\ IF IsNull(store) \/ IsNull(selectedFiles) \/ Len(Val(selectedFiles)) = 0
       THEN UNCHANGED <<store, items, writes>>
       ELSE LET r == recomputeFromEvents(Val(store), Val(selectedFiles))
            IN  /\ store' = Some(r.store)
                /\ items' = r.items
                /\ writes' = Append(unshare(assignedInPlace(writes, r.assigned),
                                            DOMAIN r.byId),
                                    WriteTask(r.store, "none", Null))


-----------------------------------------------------------------------------
(* main.ts: the settings tab *)

RemoveName(seq, name) == SelectSeq(seq, LAMBDA n : n # name)
Names(seq) == {seq[k] : k \in DOMAIN seq}

(* deleteType(typeName), lines 443-453, on the settings object *)
deleteType(set, typeName) ==
    LET typeConfigs == RemoveName(set.typeConfigs, typeName)
    IN  [typeConfigs |-> typeConfigs,
         defaultComparisonType |->
            IF set.defaultComparisonType = typeName
            THEN IF Len(typeConfigs) > 0 THEN typeConfigs[1] ELSE "default"
            ELSE set.defaultComparisonType]

(* renameType(oldName, newName), lines 404-424, on the settings object:    *)
(* the new key is added after the others and the old one deleted           *)
renameType(set, oldName, newName) ==
    [typeConfigs |-> Append(RemoveName(set.typeConfigs, oldName), newName),
     defaultComparisonType |->
        IF set.defaultComparisonType = oldName THEN newName
        ELSE set.defaultComparisonType]

(* ensureSettingsInitialized(), run by display() and showAddTypeModal() *)
ensureSettingsInitialized(set) ==
    [typeConfigs |->
        IF "default" \in Names(set.typeConfigs) THEN set.typeConfigs
        ELSE Append(set.typeConfigs, "default"),
     defaultComparisonType |->
        IF set.defaultComparisonType = "" THEN "default"
        ELSE set.defaultComparisonType]

(* The settings tab as display() draws it for set: for every configured    *)
(* type a Delete button and a Type ID field, and a Set as Default button   *)
(* unless the type is the default one; no handler in flight                *)
SettingTab(set) ==
    [types |-> Names(set.typeConfigs),
     default |-> set.defaultComparisonType,
     awaits |-> <<>>]

(* A handler of the tab in flight: the await it is at.  to: the new name   *)
(* of a rename.                                                            *)
TabTask(op, typeName, to, pc) ==
    [op |-> op, type |-> typeName, to |-> to, pc |-> pc]

(* display() (lines 120-149), run whenever the settings tab is opened:     *)
(* ensureSettingsInitialized, then the tab drawn again.  The handlers in   *)
(* flight stay in flight.                                                  *)
Display ==
    /\ ops < MaxOps
    /\ ops' = ops + 1
    /\ LET drawn == ensureSettingsInitialized(settings)
       IN  /\ settings' = drawn
           /\ settingTab' = [SettingTab(drawn) EXCEPT
                                !.awaits = settingTab.awaits]
    /\ last' = Op("display", 0, Out(TRUE, FALSE))
    /\ UNCHANGED <<store, items, pair, history, selectedFiles,
                   hasInitializedRef, now, disk, calls, writes, loads, hooks>>

(* deleteButton.onclick up to its first adapter call: confirmDelete (an    *)
(* alert when one type is left, else confirm), then deleteType and         *)
(* deleteTypeStorage up to exists(eventsPath).  The buttons are those of   *)
(* the last display().  after, the operation the click follows, is kept    *)
(* for the statement of properties.                                        *)
DeleteClick(typeName, confirmed) ==
    /\ ops < MaxOps
    /\ typeName \in settingTab.types
    /\ ops' = ops + 1
    /\ LET refused == Len(settings.typeConfigs) <= 1
       IN  /\ last' = Op("deleteClick", [type |-> typeName,
                                         confirmed |-> confirmed,
                                         refused |-> refused,
                                         after |-> [op |-> last.op,
                                                    acted |-> last.out.acted]],
                         Out(~refused /\ confirmed, FALSE))
           /\ settingTab' =
                 IF refused \/ ~confirmed THEN settingTab
                 ELSE [settingTab EXCEPT
                          !.awaits = Append(@, DeleteTask(typeName))]
    /\ UNCHANGED <<store, items, pair, history, selectedFiles,
                   hasInitializedRef, now, disk, settings, calls, writes,
                   loads, hooks>>

(* setDefaultButton.onclick up to its await of saveSettings (lines         *)
(* 258-260); the button is drawn for the types that were not the default   *)
(* at the last display() (line 253)                                        *)
SetAsDefault(typeName) ==
    /\ ops < MaxOps
    /\ typeName \in settingTab.types \ {settingTab.default}
    /\ ops' = ops + 1
    /\ settings' = [settings EXCEPT !.defaultComparisonType = typeName]
    /\ settingTab' = [settingTab EXCEPT !.awaits =
                         Append(@, TabTask("setDefault", typeName, "",
                                           "saveSettings"))]
    /\ last' = Op("setDefaultClick", [type |-> typeName], Out(TRUE, FALSE))
    /\ UNCHANGED <<store, items, pair, history, selectedFiles,
                   hasInitializedRef, now, disk, calls, writes, loads, hooks>>

(* The Add Type button: showAddTypeModal() up to its await of saveSettings *)
(* (lines 355-390); the name is always 'new-type', and a second add is     *)
(* refused with an alert                                                   *)
AddType ==
    /\ ops < MaxOps
    /\ ops' = ops + 1
    /\ LET set == ensureSettingsInitialized(settings)
           name == "new-type"
           refused == name \in Names(set.typeConfigs)
       IN  /\ settings' = IF refused THEN set
                          ELSE [set EXCEPT !.typeConfigs = Append(@, name)]
           /\ settingTab' =
                 IF refused THEN settingTab
                 ELSE [settingTab EXCEPT !.awaits =
                          Append(@, TabTask("addType", name, "",
                                            "saveSettings"))]
           /\ last' = Op("addTypeClick", [type |-> name, refused |-> refused],
                         Out(~refused, FALSE))
    /\ UNCHANGED <<store, items, pair, history, selectedFiles,
                   hasInitializedRef, now, disk, calls, writes, loads, hooks>>

(* The Type ID field of typeName changed to newName, another name (lines   *)
(* 288-296): renameType up to its await of saveSettings.  With newName     *)
(* taken it alerts and returns, and display() follows at once; with        *)
(* typeName no longer configured (the field is that of the last display()) *)
(* oldConfig is undefined and reading oldConfig.displayName throws.        *)
RenameType(typeName, newName) ==
    /\ ops < MaxOps
    /\ typeName \in settingTab.types
    /\ newName # typeName
    /\ ops' = ops + 1
    /\ LET taken == newName \in Names(settings.typeConfigs)
           throws == ~taken /\ typeName \notin Names(settings.typeConfigs)
           drawn == ensureSettingsInitialized(settings)
       IN  /\ settings' = IF taken THEN drawn
                          ELSE IF throws THEN settings
                          ELSE renameType(settings, typeName, newName)
           /\ settingTab' =
                 IF taken
                 THEN [settingTab EXCEPT
                          !.types = Names(drawn.typeConfigs),
                          !.default = drawn.defaultComparisonType]
                 ELSE IF throws THEN settingTab
                 ELSE [settingTab EXCEPT !.awaits =
                          Append(@, TabTask("renameType", typeName, newName,
                                            "saveSettings"))]
           /\ last' = Op("renameClick", [type |-> typeName, to |-> newName,
                                         taken |-> taken, throws |-> throws],
                         Out(~taken /\ ~throws, FALSE))
    /\ UNCHANGED <<store, items, pair, history, selectedFiles,
                   hasInitializedRef, now, disk, calls, writes, loads, hooks>>

(* One await of a handler of the tab in flight settling.  While            *)
(* deleteTypeStorage runs, one adapter call; when it returns, deleteType   *)
(* takes the type out of the settings (lines 444-453) and awaits           *)
(* saveSettings.  When the saveSettings of a handler resolves, display()   *)
(* draws the tab again, ensureSettingsInitialized first; when it rejects   *)
(* the handler ends there, the tab left as drawn.                          *)
TabStep(i, resolves) ==
    /\ i \in DOMAIN settingTab.awaits
    /\ LET task == settingTab.awaits[i]
           r == deleteTypeStorageStep(task, disk, resolves)
           drawn == ensureSettingsInitialized(settings)
       IN  IF task.pc = "saveSettings"
           THEN /\ settings' = IF resolves THEN drawn ELSE settings
                /\ settingTab' =
                      IF resolves
                      THEN [SettingTab(drawn) EXCEPT
                               !.awaits = RemoveAt(settingTab.awaits, i)]
                      ELSE [settingTab EXCEPT !.awaits = RemoveAt(@, i)]
                /\ disk' = disk
                /\ last' = Op(task.op, [type |-> task.type, to |-> task.to],
                              Out(resolves, FALSE))
           ELSE /\ resolves \/ (task.pc = "removeEvents"
                                /\ ~exists(disk, getEventsPath(task.type)))
                /\ disk' = r.disk
                /\ settings' = IF r.task.pc = "returned"
                               THEN deleteType(settings, task.type)
                               ELSE settings
                /\ settingTab' =
                      [settingTab EXCEPT !.awaits[i].pc =
                          IF r.task.pc = "returned" THEN "saveSettings"
                          ELSE r.task.pc]
                /\ last' = Op("deleteStep", [type |-> task.type, pc |-> task.pc],
                              Out(TRUE, FALSE))
    /\ UNCHANGED <<store, items, pair, history, selectedFiles,
                   hasInitializedRef, now, calls, writes, loads, hooks, ops>>

-----------------------------------------------------------------------------
(* storage.ts called on its own: readStore and writeStore calls, each one  *)
(* await at a time, any number of them in flight                           *)

(* A call in flight.  from, alone and follows are kept for the statement   *)
(* of properties; the functions keep no such thing.  from: the documents   *)
(* when the call was made.  alone: no other call has written a document    *)
(* since.  follows: the store that a writeStore of the same type, itself   *)
(* alone, had just returned from writing when the call was made.           *)
StorageCall(fn, task, follows) ==
    [fn |-> fn, task |-> task, from |-> disk, alone |-> TRUE,
     follows |-> follows]

(* The calls in flight but the i-th once a document has been written *)
disturbed(i) ==
    LET rest == RemoveAt(calls, i)
    IN  [k \in DOMAIN rest |-> [rest[k] EXCEPT !.alone = FALSE]]

(* readStore(vault, comparisonType) called, up to the return of its        *)
(* readEvents                                                              *)
StorageRead(comparisonType) ==
    /\ ops < MaxOps
    /\ ops' = ops + 1
    /\ LET r == readStoreStep(ReadTask(comparisonType), disk)
           follows == IF /\ last.op = "writeStore"
                         /\ last.arg.type = comparisonType
                         /\ last.arg.alone
                      THEN Some(last.arg.store) ELSE Null
       IN  /\ calls' = Append(calls, StorageCall("readStore", r.task, follows))
           /\ last' = Op("storageCall", [fn |-> "readStore",
                                         type |-> comparisonType],
                         Out(TRUE, FALSE))
    /\ UNCHANGED <<store, items, pair, history, selectedFiles,
                   hasInitializedRef, now, disk, settings, settingTab, hooks,
                   writes, loads>>

(* writeStore(vault, st, comparisonType) called, up to the settling of the *)
(* write of its events document (the mkdir before it writes nothing)       *)
StorageWrite(comparisonType, st) ==
    /\ ops < MaxOps
    /\ ops' = ops + 1
    /\ disk' = writeEvents(disk, st.events, comparisonType)
    /\ calls' = Append(disturbed(0),
                       StorageCall("writeStore",
                                   [type |-> comparisonType, store |-> st,
                                    pc |-> "ratings"],
                                   Null))
    /\ last' = Op("storageCall", [fn |-> "writeStore", type |-> comparisonType],
                  Out(TRUE, FALSE))
    /\ UNCHANGED <<store, items, pair, history, selectedFiles,
                   hasInitializedRef, now, settings, settingTab, hooks, writes,
                   loads>>

(* One await of a call in flight settling: the next position of a          *)
(* readStore, or the write of the ratings document of a writeStore (the    *)
(* mkdir before it writes nothing, and nothing assigns to the store of a   *)
(* call made on its own).  The call that returns leaves the calls in       *)
(* flight.                                                                 *)
StorageStep(i) ==
    /\ i \in DOMAIN calls
    /\ LET call == calls[i]
           r == readStoreStep(call.task, disk)
       IN  IF call.fn = "readStore"
           THEN /\ disk' = r.disk
                /\ LET writes_ == call.task.pc \in {"migrateEvents",
                                                    "migrateRatings"}
                       others == IF writes_ THEN disturbed(i)
                                 ELSE RemoveAt(calls, i)
                       here == [call EXCEPT !.task = r.task]
                   IN  IF r.task.pc = "done"
                       THEN /\ calls' = others
                            /\ last' = Op("readStore",
                                          [fn |-> "readStore",
                                           type |-> call.task.type,
                                           from |-> call.from,
                                           alone |-> call.alone,
                                           follows |-> call.follows],
                                          StoreOf(r.task.events, r.task.ratings))
                       ELSE /\ calls' = SubSeq(others, 1, i - 1) \o <<here>> \o
                                        SubSeq(others, i, Len(others))
                            /\ last' = Op("storageStep",
                                          [fn |-> "readStore",
                                           type |-> call.task.type,
                                           pc |-> call.task.pc],
                                          Out(TRUE, FALSE))
           ELSE /\ disk' = writeRatings(disk, call.task.store.ratings,
                                        call.task.type)
                /\ calls' = disturbed(i)
                /\ last' = Op("writeStore",
                              [fn |-> "writeStore",
                               type |-> call.task.type,
                               store |-> call.task.store,
                               alone |-> call.alone],
                              Out(TRUE, FALSE))
    /\ UNCHANGED <<store, items, pair, history, selectedFiles,
                   hasInitializedRef, now, settings, settingTab, hooks, writes,
                   loads, ops>>

-----------------------------------------------------------------------------
(* The inputs the specifications draw from *)

IdPool == <<"a", "b", "c", "d", "e">>
ForeignId == "x"
OtherForeignId == "y"
Types == <<"default", "books">>
(* The names a type can be given in the settings tab: 'new-type' by the    *)
(* Add Type button, the others typed into a Type ID field                  *)
NewNames == {"books", "films"}
TypeNames == {Types[k] : k \in DOMAIN Types} \cup NewNames \cup {"new-type"}

(* convertFilesToSelectedFiles: n files, at the default rating, no games *)
FileList(n) ==
    [k \in 1 .. n |-> [id |-> IdPool[k], rating |-> DEFAULT_RATING, games |-> 0]]
FileLists == {FileList(n) : n \in 0 .. MaxFiles}

Paths ==
    {getEventsPath(T) : T \in TypeNames} \cup
    {getRatingsPath(T) : T \in TypeNames} \cup
    {oldEventsPath, oldRatingsPath}

EmptyDisk == [p \in Paths |-> AbsentDoc]

(* The disk with the store st under comparison type T's two paths *)
WithStore(dsk, st, comparisonType) == writeStore(dsk, st, comparisonType)
WithLegacy(dsk, st) ==
    [dsk EXCEPT ![oldEventsPath] = stringifyEvents(st.events),
                ![oldRatingsPath] = stringifyRatings(st.ratings)]

Event(t, a, b, s) == [t |-> t, a |-> a, b |-> b, s |-> s]
Rec(rating, games) == [rating |-> rating, games |-> games]

(* a beat b yesterday *)
StoreAB ==
    StoreOf(<<Event(MAX_AGE - 1, "a", "b", "1")>>,
            [id \in {"a", "b"} |->
                IF id = "a" THEN Rec(DEFAULT_RATING + 16, 1)
                ELSE Rec(DEFAULT_RATING - 16, 1)])

(* x, no longer among the files, beat a thirty days ago; yesterday a drew  *)
(* with b                                                                  *)
StoreXAB ==
    StoreOf(<<Event(0, ForeignId, "a", "1"), Event(MAX_AGE - 1, "a", "b", "0.5")>>,
            [id \in {ForeignId, "a", "b"} |->
                IF id = ForeignId THEN Rec(1016, 1)
                ELSE IF id = "a" THEN Rec(985, 2)
                ELSE Rec(999, 1)])

SessionDisks ==
    {EmptyDisk,
     WithStore(WithStore(EmptyDisk, StoreXAB, "default"), StoreAB, "books"),
     WithLegacy(EmptyDisk, StoreAB)}

settings0 == [typeConfigs |-> Types, defaultComparisonType |-> "default"]
settingTab0 == SettingTab(settings0)

(* The hooks before any component that uses them has mounted.  loadedFor   *)
(* records, for the statement of properties, the comparison type whose     *)
(* load or update produced the store the hook holds ("none": the empty     *)
(* default); the hook itself keeps no such field.                          *)
hooks0 ==
    [mounted |-> FALSE,
     comparisonType |-> "default",
     store |-> Null,
     loadedFor |-> "none",
     storeLoads |-> <<>>,
     writes |-> <<>>,
     selectedFiles |-> Null,
     loading |-> FALSE,
     error |-> Null,
     fileLoads |-> <<>>]

-----------------------------------------------------------------------------
(* The comparison session, from the mount of the component *)

Init ==
    /\ store = Null
    /\ items = <<>>
    /\ pair = <<0, 1>>
    /\ history = <<>>
    /\ selectedFiles = Null
    /\ hasInitializedRef = FALSE
    /\ now = MAX_AGE
    /\ disk \in SessionDisks
    /\ settings = settings0
    /\ settingTab = settingTab0
    /\ calls = <<>>
    /\ hooks = hooks0
    /\ writes = <<>>
    /\ loads = [store |-> ReadTask("default"), files |-> "pending"]
    /\ ops = 0
    /\ last = Op("mount", 0, Out(FALSE, FALSE))

Next ==
    \/ StoreLoaded
    \/ \E files \in FileLists : FilesLoaded(files)
    \/ \E winnerIndex \in {pair[1], pair[2]} : HandleWin(winnerIndex)
    \/ Skip
    \/ \E index \in {pair[1], pair[2]} : RemoveItem(index)
    \/ \E confirmed \in BOOLEAN : ResetClick(confirmed)
    \/ \E i \in DOMAIN writes : WriteStep(i, TRUE)
    \/ Recompute

Spec == Init /\ [][Next]_vars

-----------------------------------------------------------------------------
(* The session with the settings tab open beside it: the Reset button of   *)
(* the session, the buttons and Type ID fields of the tab, and the tab     *)
(* opened again                                                            *)

NextConfirm ==
    \/ StoreLoaded
    \/ \E files \in FileLists : FilesLoaded(files)
    \/ \E confirmed \in BOOLEAN : ResetClick(confirmed)
    \/ \E i \in DOMAIN writes : WriteStep(i, TRUE)
    \/ \E typeName \in TypeNames, confirmed \in BOOLEAN :
          DeleteClick(typeName, confirmed)
    \/ \E typeName \in TypeNames : SetAsDefault(typeName)
    \/ AddType
    \/ \E typeName \in TypeNames, newName \in NewNames :
          RenameType(typeName, newName)
    \/ \E i \in DOMAIN settingTab.awaits, resolves \in BOOLEAN :
          TabStep(i, resolves)
    \/ Display

SpecConfirm == Init /\ [][NextConfirm]_vars

(* The session and the tab with only the two buttons that ask for a        *)
(* confirmation, Reset and Delete, what their handlers await, and the tab  *)
(* opened again; the files loaded are none or MaxFiles of them             *)
NextCancel ==
    \/ StoreLoaded
    \/ \E n \in {0, MaxFiles} : FilesLoaded(FileList(n))
    \/ \E confirmed \in BOOLEAN : ResetClick(confirmed)
    \/ \E i \in DOMAIN writes : WriteStep(i, TRUE)
    \/ \E typeName \in TypeNames, confirmed \in BOOLEAN :
          DeleteClick(typeName, confirmed)
    \/ \E i \in DOMAIN settingTab.awaits, resolves \in BOOLEAN :
          TabStep(i, resolves)
    \/ Display

SpecCancel == Init /\ [][NextCancel]_vars

-----------------------------------------------------------------------------
(* Appends to a long log: a loaded session whose stored log holds n draws  *)
(* between two files that are no longer selected, the first k of them      *)
(* thirty days old                                                         *)

PriorLog(n, k) ==
    [i \in 1 .. n |->
        Event(IF i <= k THEN 0 ELSE MAX_AGE - 1, ForeignId, OtherForeignId, "0.5")]

PriorStore(n, k) ==
    StoreOf(PriorLog(n, k),
            IF n = 0 THEN EmptyRatings
            ELSE [id \in {ForeignId, OtherForeignId} |-> Rec(DEFAULT_RATING, n)])

LogLengths ==
    {0, 1, MAX_EVENTS - 1, MAX_EVENTS} \cup
    (MAX_EVENTS + 1 .. MAX_EVENTS + MaxExtra)

(* The session after both loads, on the store st and the files, with the   *)
(* history hist that the init effect reconstructed                         *)
LoadedWith(st, files, hist) ==
    /\ store = Some(st)
    /\ selectedFiles = Some(files)
    /\ items = IF files = <<>> THEN <<>> ELSE itemsWithRatings(files, st.ratings)
    /\ history = hist
    /\ hasInitializedRef = (files # <<>>)
    /\ pair = <<0, 1>>
    /\ now = MAX_AGE
    /\ disk = WithStore(EmptyDisk, st, "default")
    /\ settings = settings0
    /\ settingTab = settingTab0
    /\ calls = <<>>
    /\ hooks = hooks0
    /\ writes = <<>>
    /\ loads = [store |-> StoreRead, files |-> "done"]
    /\ ops = 0
    /\ last = Op("mount", 0, Out(FALSE, FALSE))

Loaded(st, files) ==
    LoadedWith(st, files, reconstructHistoryFromEvents(files, st))

InitLog ==
    \E n \in LogLengths : \E k \in {0, 1, n} :
        /\ k <= n
        /\ LoadedWith(PriorStore(n, k), FileList(2), <<>>)

NextLog ==
    \/ \E winnerIndex \in {pair[1], pair[2]} : HandleWin(winnerIndex)
    \/ Tick

SpecLog == InitLog /\ [][NextLog]_vars

-----------------------------------------------------------------------------
(* Picks: a loaded session whose items have played before (their events    *)
(* have aged out of the log; the table keeps the counts)                   *)

PlayedRatings(files, games) ==
    [id \in {files[k].id : k \in DOMAIN files} |->
        Rec(DEFAULT_RATING,
            games[CHOOSE k \in DOMAIN files : files[k].id = id])]

InitPick ==
    \E n \in 0 .. MaxItems : \E games \in [1 .. n -> 0 .. MaxGames] :
        Loaded(StoreOf(<<>>, PlayedRatings(FileList(n), games)), FileList(n))

NextPick == Skip

SpecPick == InitPick /\ [][NextPick]_vars

-----------------------------------------------------------------------------
(* The history of a stored log: the store has loaded, the files have not   *)

EventPool ==
    {Event(0, "a", "b", "1"), Event(0, "b", "a", "0"), Event(0, "a", "b", "0.5"),
     Event(0, ForeignId, "a", "1"), Event(0, "b", ForeignId, "0"),
     Event(0, ForeignId, OtherForeignId, "1")}

Logs == UNION {[1 .. n -> EventPool] : n \in 0 .. MaxLogLen}

InitHistory ==
    /\ \E events \in Logs : \E ratings \in {EmptyRatings, StoreXAB.ratings} :
          /\ store = Some(StoreOf(events, ratings))
          /\ disk = WithStore(EmptyDisk, Val(store), "default")
    /\ selectedFiles = Null
    /\ items = <<>>
    /\ history = <<>>
    /\ hasInitializedRef = FALSE
    /\ pair = <<0, 1>>
    /\ now = MAX_AGE
    /\ settings = settings0
    /\ settingTab = settingTab0
    /\ calls = <<>>
    /\ hooks = hooks0
    /\ writes = <<>>
    /\ loads = [store |-> StoreRead, files |-> "pending"]
    /\ ops = 0
    /\ last = Op("mount", 0, Out(FALSE, FALSE))

NextHistory == \E files \in FileLists : FilesLoaded(files)

SpecHistory == InitHistory /\ [][NextHistory]_vars

-----------------------------------------------------------------------------
(* The two documents of a type, read and written through storage.ts *)

EventDocs ==
    {AbsentDoc, CorruptDoc, NumberDoc, stringifyEvents(<<>>),
     stringifyEvents(StoreAB.events)}
(* A ratings document that holds a JSON array of one record *)
ArrayRatings == arrayObject(<<Rec(DEFAULT_RATING, 1)>>)

RatingDocs ==
    {AbsentDoc, CorruptDoc, stringifyRatings(EmptyRatings),
     stringifyRatings(StoreAB.ratings), stringifyRatings(ArrayRatings)}
LegacyDocs ==
    {<<AbsentDoc, AbsentDoc>>,
     <<stringifyEvents(StoreXAB.events), stringifyRatings(StoreXAB.ratings)>>,
     <<CorruptDoc, stringifyRatings(StoreXAB.ratings)>>,
     <<stringifyEvents(StoreXAB.events), AbsentDoc>>,
     <<stringifyEvents(StoreXAB.events), CorruptDoc>>,
     <<stringifyEvents(StoreXAB.events), stringifyRatings(ArrayRatings)>>}

(* The documents of 'default' e and r, the legacy pair old, and for        *)
(* 'books' no events document and the ratings document booksR              *)
StorageDisk(e, r, old, booksR) ==
    [p \in Paths |->
        IF p = getEventsPath("default") THEN e
        ELSE IF p = getRatingsPath("default") THEN r
        ELSE IF p = oldEventsPath THEN old[1]
        ELSE IF p = oldRatingsPath THEN old[2]
        ELSE IF p = getRatingsPath("books") THEN booksR
        ELSE AbsentDoc]

(* Every pair of documents of 'default' beside no legacy pair and beside   *)
(* the legacy pair that holds data; every pair of them that holds no data  *)
(* (the pairs that send readStore into its migration block) beside every   *)
(* legacy pair; and beside every legacy pair a ratings document of 'books' *)
(* alone                                                                   *)
StorageDisks ==
    {StorageDisk(e, r, old, AbsentDoc) :
        e \in EventDocs, r \in RatingDocs,
        old \in {<<AbsentDoc, AbsentDoc>>,
                 <<stringifyEvents(StoreXAB.events),
                   stringifyRatings(StoreXAB.ratings)>>}} \cup
    {StorageDisk(e, r, old, AbsentDoc) :
        e \in EventDocs \ {stringifyEvents(StoreAB.events)},
        r \in {AbsentDoc, CorruptDoc, stringifyRatings(EmptyRatings)},
        old \in LegacyDocs} \cup
    {StorageDisk(AbsentDoc, AbsentDoc, old, stringifyRatings(StoreXAB.ratings)) :
        old \in LegacyDocs}

WrittenStores == {EmptyStore, StoreAB, StoreXAB, StoreOf(<<>>, ArrayRatings)}

(* The writeStore calls made: every store for 'default', for 'books' the   *)
(* empty store and a store that holds data                                 *)
StorageWrites ==
    {<<"default", st>> : st \in WrittenStores} \cup
    {<<"books", EmptyStore>>, <<"books", StoreAB>>}

InitStorage ==
    /\ disk \in StorageDisks
    /\ store = Null
    /\ items = <<>>
    /\ pair = <<0, 1>>
    /\ history = <<>>
    /\ selectedFiles = Null
    /\ hasInitializedRef = FALSE
    /\ now = MAX_AGE
    /\ settings = settings0
    /\ settingTab = settingTab0
    /\ calls = <<>>
    /\ hooks = hooks0
    /\ writes = <<>>
    /\ loads = [store |-> ReadTask("default"), files |-> "pending"]
    /\ ops = 0
    /\ last = Op("mount", 0, Out(FALSE, FALSE))

NextStorage ==
    \/ \E k \in DOMAIN Types : StorageRead(Types[k])
    \/ \E w \in StorageWrites : StorageWrite(w[1], w[2])
    \/ \E i \in DOMAIN calls : StorageStep(i)

SpecStorage == InitStorage /\ [][NextStorage]_vars

-----------------------------------------------------------------------------
(* Properties *)

(* The handlers a user action runs *)
UserOps == {"recordOutcome", "skip", "removeItem", "reset", "recompute"}

(* C1 (SpecLog): after an append of a comparison event by handleWin the    *)
(* store's log holds at most MAX_EVENTS events and its last element is the *)
(* event that was just appended, whatever the log was before.              *)
C1_AppendKeepsNewest ==
    (last.op = "recordOutcome" /\ last.out.acted) =>
        LET events == Val(store).events
        IN  /\ Len(events) >= 1
            /\ Len(events) <= MAX_EVENTS
            /\ events[Len(events)] = last.out.event

(* An append to a stored log of MAX_EVENTS or more events, none of them    *)
(* aged: the log was cut to MAX_EVENTS.  (No write runs in SpecLog, so the *)
(* disk still holds the log as it was loaded.)                             *)
C1_Witness ==
    /\ last.op = "recordOutcome"
    /\ last.out.acted
    /\ ops = 1
    /\ Len(readEvents(disk, "default")) >= MAX_EVENTS
    /\ readEvents(disk, "default")[1].t = MAX_AGE - 1
    /\ Len(Val(store).events) = MAX_EVENTS

(* A freshly initialized session on an empty store with two items at the   *)
(* default rating and no games                                             *)
FreshSession ==
    /\ store = Some(EmptyStore)
    /\ hasInitializedRef
    /\ Len(items) = 2
    /\ \A k \in DOMAIN items :
          items[k].rating = DEFAULT_RATING /\ items[k].games = 0
    /\ history = <<>>
    /\ pair \in {<<0, 1>>, <<1, 0>>}

(* What recording a win of the item at winnerIndex leaves in a fresh       *)
(* session, apart from the event: 1016 and 984, one event, one history     *)
(* entry from 1000 to 1016.  Stated of a step.                             *)
FreshWinRecorded(winnerIndex) ==
    LET loserIndex == 1 - winnerIndex
    IN  /\ At(items', winnerIndex).rating = 1016
        /\ At(items', loserIndex).rating = 984
        /\ Len(Val(store').events) = 1
        /\ Len(history') = 1
        /\ history'[1].winner = At(items, winnerIndex).id
        /\ history'[1].loser = At(items, loserIndex).id
        /\ history'[1].winnerOldRating = 1000
        /\ history'[1].winnerNewRating = 1016

(* C2 as stated: in a fresh session, recording that item-1 beats item-2    *)
(* leaves 1016 and 984, one event with s = 1 and one history entry 1000 -> *)
(* 1016, for either position of item-1 in the pair.                        *)
C2_Original ==
    [][(FreshSession /\ last'.op = "recordOutcome") =>
          /\ FreshWinRecorded(last'.arg)
          /\ Val(store').events[1].s = "1"]_vars

(* C2, amended: in a fresh session, recording that item-1 beats item-2     *)
(* leaves 1016 and 984, one history entry 1000 -> 1016 and one event,      *)
(* whose a and b are the pair's first and second item and whose s is the   *)
(* score of a: 1 when item-1 is first in the pair, 0 when it is second.    *)
C2_FreshWin ==
    [][(FreshSession /\ last'.op = "recordOutcome") =>
          /\ FreshWinRecorded(last'.arg)
          /\ Val(store').events[1] =
                 [t |-> now,
                  a |-> At(items, pair[1]).id,
                  b |-> At(items, pair[2]).id,
                  s |-> IF last'.arg = pair[1] THEN "1" ELSE "0"]]_vars

(* The first comparison of a fresh session, won by the pair's second item *)
C2_Witness ==
    /\ last.op = "recordOutcome"
    /\ last.out.acted
    /\ ~last.out.merged
    /\ Len(Val(store).events) = 1
    /\ Val(store).events[1].s = "0"
    /\ Len(history) = 1
    /\ history[1].winner = Val(store).events[1].b
    /\ history[1].winnerOldRating = 1000
    /\ history[1].winnerNewRating = 1016
    /\ {items[k].rating : k \in DOMAIN items} = {1016, 984}

(* C3: a recordOutcome that records changes the ratings table for the two  *)
(* items of the pair only: each of the two (distinct) items gets the       *)
(* rating eloUpdate gives and a games count one greater than the item's,   *)
(* every other record is unchanged and none is removed.                    *)
C3_TwoRecordsChange ==
    [][(last'.op = "recordOutcome" /\ last'.out.acted) =>
          LET a == At(items, pair[1])
              b == At(items, pair[2])
              sA == IF last'.arg = pair[1] THEN "1" ELSE "0"
              new == eloUpdate(a.rating, b.rating, sA)
              before == Val(store).ratings
              after == Val(store').ratings
          IN  /\ DOMAIN after = DOMAIN before \cup {a.id, b.id}
              /\ \A id \in DOMAIN before \ {a.id, b.id} : after[id] = before[id]
              /\ a.id # b.id =>
                    /\ after[a.id] = [rating |-> new[1], games |-> a.games + 1]
                    /\ after[b.id] = [rating |-> new[2], games |-> b.games + 1]]_vars

(* A comparison of a (two games before) with b recorded while the table    *)
(* holds the record of x, which is no item                                 *)
C3_Witness ==
    /\ last.op = "recordOutcome"
    /\ last.out.acted
    /\ ~IsNull(store)
    /\ HasRecord(Val(store).ratings, ForeignId)
    /\ Val(store).ratings[ForeignId] = StoreXAB.ratings[ForeignId]
    /\ HasRecord(Val(store).ratings, "a")
    /\ Val(store).ratings["a"].games = 3
    /\ Val(store).ratings["b"].games = 2

(* C4: recordOutcome while the store is still null is a no-op: no item,    *)
(* history, store or pair changes and no write is started.                 *)
C4_NullStoreNoOp ==
    [][(last'.op = "recordOutcome" /\ IsNull(store)) =>
          /\ ~last'.out.acted
          /\ UNCHANGED <<store, items, pair, history, selectedFiles,
                         hasInitializedRef, disk, writes>>]_vars

(* A Choose click handled before the store had loaded *)
C4_Witness ==
    /\ last.op = "recordOutcome"
    /\ IsNull(store)
    /\ ~last.out.acted

(* C5: for a list of two or more items pickPair yields two distinct        *)
(* indices within the list, and the item at the first has the least games  *)
(* count of the list.                                                      *)
C5_PickValid ==
    (last.op = "skip" /\ Len(items) >= 2) =>
        /\ pair[1] # pair[2]
        /\ HasIndex(items, pair[1])
        /\ HasIndex(items, pair[2])
        /\ \A k \in DOMAIN items : At(items, pair[1]).games <= items[k].games

(* A pick among three items of which the first has played more than the    *)
(* others                                                                  *)
C5_Witness ==
    /\ last.op = "skip"
    /\ Len(items) = 3
    /\ items[1].games > items[2].games
    /\ items[2].games = items[3].games
    /\ pair = <<2, 1>>

(* What readStore sees of a type before it reads *)
unreadable(doc) == doc.kind \in {"absent", "corrupt"}

(* A readStore call that has returned with no other call writing a         *)
(* document while it ran: the documents it was made on are last.arg.from   *)
readAlone(op) == op.op = "readStore" /\ op.arg.alone

(* C6 as stated: readStore returns the empty store whenever either of the  *)
(* type's two documents is absent or unparsable, whatever the other holds. *)
C6_Original ==
    [][readAlone(last') =>
          LET E == last'.arg.from[getEventsPath(last'.arg.type)]
              R == last'.arg.from[getRatingsPath(last'.arg.type)]
          IN  (unreadable(E) \/ unreadable(R)) => last'.out = EmptyStore]_vars

(* What the migration block copies from legacy documents that both parse   *)
(* or are absent: the legacy events when there are any, the legacy ratings *)
(* when there are any                                                      *)
legacyCopied(dsk) ==
    StoreOf(IF dsk[oldEventsPath].kind = "array"
            THEN dsk[oldEventsPath].arr ELSE <<>>,
            IF /\ dsk[oldRatingsPath].kind \in {"object", "array"}
               /\ objectKeys(parsedObject(dsk[oldRatingsPath])) # {}
            THEN parsedObject(dsk[oldRatingsPath]) ELSE EmptyRatings)

(* C6, amended: readStore returns the empty store whenever either document *)
(* of the type is absent or unparsable, with two exceptions: when the      *)
(* other document holds data, it returns that data with the missing half   *)
(* empty; and for 'default', when neither document holds data and neither  *)
(* legacy document is unparsable, it returns what the migration copies     *)
(* from the legacy documents.  The documents are those the call was made   *)
(* on, no other call writing while it runs.                                *)
C6_ReadFallsBackPerDocument ==
    [][readAlone(last') =>
          LET from == last'.arg.from
              T == last'.arg.type
              E == from[getEventsPath(T)]
              R == from[getRatingsPath(T)]
              events == IF E.kind = "array" THEN E.arr ELSE <<>>
              ratings == IF R.kind \in {"object", "array"}
                         THEN parsedObject(R) ELSE EmptyRatings
          IN  (unreadable(E) \/ unreadable(R)) =>
                 last'.out =
                    IF Len(events) > 0 \/ objectKeys(ratings) # {}
                    THEN StoreOf(events, ratings)
                    ELSE IF /\ T = "default"
                            /\ from[oldEventsPath].kind # "corrupt"
                            /\ from[oldRatingsPath].kind # "corrupt"
                    THEN legacyCopied(from)
                    ELSE EmptyStore]_vars

(* A read of a type whose events document is unreadable and whose ratings  *)
(* document holds records: the records came back                           *)
C6_Witness ==
    /\ readAlone(last)
    /\ unreadable(last.arg.from[getEventsPath(last.arg.type)])
    /\ last.arg.from[getRatingsPath(last.arg.type)].kind = "object"
    /\ hasKeys(last.arg.from[getRatingsPath(last.arg.type)].obj)
    /\ last.out = StoreOf(<<>>, last.arg.from[getRatingsPath(last.arg.type)].obj)
    /\ last.out # EmptyStore

(* C7: readStore(T) straight after writeStore(T, S) returns a store with   *)
(* the events and the ratings of S, for every type T, 'default' included,  *)
(* and every S, the empty store included, whatever else the directory      *)
(* holds.  Straight after: the read is called when the write has returned, *)
(* and no other call writes a document while either runs.                  *)
C7_RoundTrip ==
    [][(readAlone(last') /\ last'.arg.follows # Null)
       => last'.out = Val(last'.arg.follows)]_vars

(* C8: the history reconstruction skips every event that names an id       *)
(* absent from the files: no entry names such an id, and the entries and   *)
(* the working ratings and games counts are those of the replay of the log *)
(* with these events removed.                                              *)
C8_AbsentIdsSkipped ==
    (last.op = "filesLoaded" /\ last.out.merged) =>
        LET files == Val(selectedFiles)
            st == Val(store)
            ids == {files[k].id : k \in DOMAIN files}
            present == SelectSeq(st.events,
                                 LAMBDA e : e.a \in ids /\ e.b \in ids)
            seed == seedById(files, st.ratings)
        IN  /\ history =
                   reconstructHistoryFromEvents(files, StoreOf(present, st.ratings))
            /\ \A k \in DOMAIN history :
                   history[k].winner \in ids /\ history[k].loser \in ids
            /\ Len(history) = Len(SelectSeq(present, LAMBDA e : e.s # "0.5"))
            /\ replayEvents(st.events, seed, <<>>) =
                   replayEvents(present, seed, <<>>)

(* A history of one entry rebuilt from a log of three events, two of which *)
(* name an id that is no file                                              *)
C8_Witness ==
    /\ last.op = "filesLoaded"
    /\ last.out.merged
    /\ Len(Val(store).events) = 3
    /\ Val(store).events[1].a = ForeignId
    /\ Val(store).events[2].s = "1"
    /\ Val(store).events[2].a = "a"
    /\ Val(store).events[3].b = ForeignId
    /\ Len(history) = 1

(* C9: the init effect's merge runs once: a recordOutcome that records is  *)
(* not followed by another merge, and it leaves the items and the history  *)
(* it computed (the new entry in front of the old history), not a          *)
(* reconstruction.                                                         *)
C9_MergeRunsOnce ==
    [][(last'.op = "recordOutcome" /\ last'.out.acted) =>
          LET w == winOutcome(Val(store), items, pair, last'.arg, now)
          IN  /\ ~last'.out.merged
              /\ items' = w.items
              /\ history' = <<w.entry>> \o history]_vars

(* C10: a Reset click or a Delete click whose confirmation the user        *)
(* cancels changes nothing: not the store, the ratings, the items, the     *)
(* history, the settings or the documents, and it starts no write.         *)
C10_CancelChangesNothing ==
    [][(\/ last'.op = "reset" /\ ~last'.arg
        \/ last'.op = "deleteClick" /\ ~last'.arg.confirmed)
       => UNCHANGED <<store, items, pair, history, selectedFiles,
                      hasInitializedRef, disk, settings, settingTab, calls,
                      writes, loads>>]_vars

(* Both cancellations, in a session that holds a history and a stored log  *)
(* and with both types configured: a Delete click on 'books' cancelled     *)
(* straight after a cancelled Reset click                                  *)
C10_Witness ==
    /\ last.op = "deleteClick"
    /\ last.arg.type = "books"
    /\ ~last.arg.confirmed
    /\ ~last.arg.refused
    /\ last.arg.after = [op |-> "reset", acted |-> FALSE]
    /\ ~IsNull(store)
    /\ Val(store).events # <<>>
    /\ history # <<>>
    /\ hasInitializedRef

(* The step in which a confirmed reset runs to its end: its write settles  *)
(* and the lines after the await run                                       *)
resetFinishes ==
    last'.op = "write" /\ last'.arg.then = "reset" /\ last'.arg.done

(* C11: a confirmed reset leaves the empty store in memory and in the two  *)
(* documents, every working item at rating 1000 with 0 games, an empty     *)
(* history and a cleared initialization flag, and the working items are    *)
(* the same items, in the same order, as before it.                        *)
C11_ResetEffect ==
    [][resetFinishes =>
          /\ store' = Some(EmptyStore)
          /\ disk'[getEventsPath("default")] = stringifyEvents(<<>>)
          /\ disk'[getRatingsPath("default")] = stringifyRatings(EmptyRatings)
          /\ items' = resetItems(items)
          /\ history' = <<>>
          /\ ~hasInitializedRef']_vars

(* What the legacy documents hold: the events of events.json, the records  *)
(* of ratings.json; nothing for a document that is absent, unparsable or   *)
(* of another shape                                                        *)
legacyEvents(dsk) ==
    IF dsk[oldEventsPath].kind = "array" THEN dsk[oldEventsPath].arr ELSE <<>>
legacyRatings(dsk) ==
    IF dsk[oldRatingsPath].kind \in {"object", "array"}
    THEN parsedObject(dsk[oldRatingsPath])
    ELSE EmptyRatings
legacyHoldsData(dsk) ==
    Len(legacyEvents(dsk)) > 0 \/ objectKeys(legacyRatings(dsk)) # {}

(* The disk with the legacy documents taken away *)
withoutLegacy(dsk) ==
    [dsk EXCEPT ![oldEventsPath] = AbsentDoc, ![oldRatingsPath] = AbsentDoc]

(* C12: a readStore of 'default' that finds the new-format documents       *)
(* absent or empty and legacy documents that hold data (events in          *)
(* events.json or records in ratings.json, whatever the other is) writes   *)
(* the legacy contents to the default-suffixed documents and returns them  *)
(* as the store; a readStore of any other type writes nothing, at any of   *)
(* its steps, and returns what it would return without the legacy          *)
(* documents.  The documents found are those the call was made on, no      *)
(* other call writing while it runs.                                       *)
C12_LegacyMigration ==
    [][/\ readAlone(last') =>
          LET from == last'.arg.from
          IN  /\ (/\ last'.arg.type = "default"
                  /\ Len(readEvents(from, "default")) = 0
                  /\ ~hasKeys(readRatings(from, "default"))
                  /\ legacyHoldsData(from))
                 => /\ last'.out = StoreOf(legacyEvents(from), legacyRatings(from))
                    /\ readEvents(disk', "default") = legacyEvents(from)
                    /\ readRatings(disk', "default") = legacyRatings(from)
                    /\ \A p \in Paths \ {getEventsPath("default"),
                                         getRatingsPath("default")} :
                           disk'[p] = from[p]
              /\ (last'.arg.type # "default")
                 => /\ disk' = from
                    /\ last'.out =
                          readStore(withoutLegacy(from), last'.arg.type).store
       /\ (/\ last'.op \in {"storageCall", "storageStep", "readStore"}
           /\ last'.arg.fn = "readStore"
           /\ last'.arg.type # "default")
          => disk' = disk]_vars

(* The session began on the empty store: nothing was stored for any type   *)
(* and no legacy document existed (a session only ever writes the          *)
(* default-suffixed documents)                                             *)
fromEmptyStore ==
    /\ disk[getEventsPath("books")] = AbsentDoc
    /\ disk[getRatingsPath("books")] = AbsentDoc
    /\ disk[oldEventsPath] = AbsentDoc
    /\ disk[oldRatingsPath] = AbsentDoc

(* The table that replaying a log in order gives, every item starting at   *)
(* rating 1000 with 0 games                                                *)
RECURSIVE replayFromDefaults(_, _)
replayFromDefaults(events, ratings) ==
    IF events = <<>> THEN ratings
    ELSE LET ev == Head(events)
             a == storedOrDefault(ratings, ev.a)
             b == storedOrDefault(ratings, ev.b)
             new == eloUpdate(a.rating, b.rating, ev.s)
         IN  replayFromDefaults(Tail(events),
                 updateStoreRatings(ratings,
                                    [id |-> ev.a, games |-> a.games],
                                    [id |-> ev.b, games |-> b.games],
                                    new[1], new[2]))

(* Every id an item or an event can carry *)
AllIds == {IdPool[k] : k \in DOMAIN IdPool} \cup {ForeignId, OtherForeignId}

(* C13: in a session that began on the empty store, after any sequence of  *)
(* recordOutcome, skip, removeItem, recompute and reset, the rating and    *)
(* games count the store holds for every item (1000 and 0 where it holds   *)
(* no record) are those that replaying the store's event log in order from *)
(* the defaults gives.                                                     *)
C13_RatingsAreReplay ==
    (fromEmptyStore /\ ~IsNull(store)) =>
        \A id \in AllIds :
            storedOrDefault(Val(store).ratings, id)
                = storedOrDefault(replayFromDefaults(Val(store).events,
                                                     EmptyRatings), id)

(* The events of a log whose two items are both among the files, and the   *)
(* decisive ones among the first k of them                                 *)
presentEvents(events, files) ==
    SelectSeq(events, LAMBDA e :
        /\ e.a \in {files[k].id : k \in DOMAIN files}
        /\ e.b \in {files[k].id : k \in DOMAIN files})
decisiveUpTo(present, k) ==
    Len(SelectSeq(SubSeq(present, 1, k), LAMBDA e : e.s # "0.5"))

(* C14: in the history rebuilt from the log, a draw between two present    *)
(* items adds no entry but moves both working ratings by the Elo update    *)
(* for a score of 0.5 and adds one to both working games counts; the old   *)
(* ratings of the entry of a later event are the working ratings after     *)
(* every earlier event, draws included; and there are as many entries as   *)
(* decisive events between present items.                                  *)
C14_DrawsAdvanceReplay ==
    (last.op = "filesLoaded" /\ last.out.merged) =>
        LET files == Val(selectedFiles)
            present == presentEvents(Val(store).events, files)
            seed == seedById(files, Val(store).ratings)
            upTo(k) == replayEvents(SubSeq(present, 1, k), seed, <<>>)
        IN  /\ Len(history) = decisiveUpTo(present, Len(present))
            /\ \A k \in 1 .. Len(present) :
                   LET ev == present[k]
                       before == upTo(k - 1)
                       after == upTo(k)
                       a == before.byId[ev.a]
                       b == before.byId[ev.b]
                       new == eloUpdate(a.rating, b.rating, ev.s)
                   IN  /\ after.byId[ev.a] =
                              [rating |-> new[1], games |-> a.games + 1]
                       /\ after.byId[ev.b] =
                              [rating |-> new[2], games |-> b.games + 1]
                       /\ ev.s = "0.5" => after.entries = before.entries
                       /\ ev.s # "0.5" =>
                              LET entry == history[decisiveUpTo(present, k)]
                              IN  {entry.winnerOldRating, entry.loserOldRating}
                                      = {a.rating, b.rating}

(* A log of a win, a draw and a win between a and b rebuilt into two       *)
(* entries, the second of which starts from the ratings the draw left      *)
C14_Witness ==
    /\ last.op = "filesLoaded"
    /\ last.out.merged
    /\ Len(Val(store).events) = 3
    /\ Val(store).events[1].s = "1"
    /\ Val(store).events[2].s = "0.5"
    /\ Val(store).events[3].s = "1"
    /\ Val(store).ratings = EmptyRatings
    /\ Len(history) = 2
    /\ history[1].winnerNewRating = 1016
    /\ history[2].winnerOldRating = 1015
    /\ history[2].loserOldRating = 985

-----------------------------------------------------------------------------
(* Comparisons and the writes they start: a loaded session on two files,   *)
(* whose persisted documents are those of the loaded store                 *)

InitWrites ==
    \E st \in {EmptyStore, StoreAB} : Loaded(st, FileList(2))

NextWrites ==
    \/ \E winnerIndex \in {pair[1], pair[2]} : HandleWin(winnerIndex)
    \/ \E i \in DOMAIN writes : WriteStep(i, TRUE)

SpecWrites == InitWrites /\ [][NextWrites]_vars

(* The two documents of 'default' hold the store in memory *)
persistedIsStore ==
    /\ disk[getEventsPath("default")] = stringifyEvents(Val(store).events)
    /\ disk[getRatingsPath("default")] = stringifyRatings(Val(store).ratings)

(* C15: after two or more recordOutcome calls, whose writes may overlap,   *)
(* once no write is in flight the persisted events document and the        *)
(* persisted ratings document are those of the store in memory, the one    *)
(* recorded last.                                                          *)
C15_LastWriteWins ==
    (ops >= 2 /\ writes = <<>>) => persistedIsStore

-----------------------------------------------------------------------------
(* The initialized session: both loads have finished and the init effect   *)
(* has run, and the user works the buttons while the writes settle         *)

InitSession ==
    \E st \in {EmptyStore, StoreAB, StoreXAB} : \E files \in FileLists :
        Loaded(st, files)

NextSession ==
    \/ \E winnerIndex \in {pair[1], pair[2]} : HandleWin(winnerIndex)
    \/ Skip
    \/ \E index \in {pair[1], pair[2]} : RemoveItem(index)
    \/ \E confirmed \in BOOLEAN : ResetClick(confirmed)
    \/ Recompute
    \/ \E i \in DOMAIN writes : WriteStep(i, TRUE)

SpecSession == InitSession /\ [][NextSession]_vars

(* Both loads have finished and the init effect has run on their results *)
afterInitialization ==
    /\ loads.store.pc = "done"
    /\ loads.files = "done"
    /\ ~IsNull(store)
    /\ ~IsNull(selectedFiles)

(* C16: once the session is initialized, whatever recordOutcome, skip,     *)
(* removeItem, recompute and reset calls follow, every working item whose  *)
(* id has a record in the ratings table of the store in memory has that    *)
(* record's rating and games count.                                        *)
C16_ItemsMatchStore ==
    afterInitialization =>
        \A k \in DOMAIN items :
            HasRecord(Val(store).ratings, items[k].id) =>
                /\ items[k].rating = Val(store).ratings[items[k].id].rating
                /\ items[k].games = Val(store).ratings[items[k].id].games

-----------------------------------------------------------------------------
(* The order of the history: the store has loaded with a log of recent     *)
(* decisive comparisons of a and b and the ratings they give, the files    *)
(* load, and comparisons follow                                            *)

OrderPool ==
    {Event(MAX_AGE - 1, "a", "b", "1"), Event(MAX_AGE - 1, "a", "b", "0")}

InitOrder ==
    /\ \E n \in 0 .. MaxLogLen : \E events \in [1 .. n -> OrderPool] :
          /\ store = Some(StoreOf(events, replayFromDefaults(events, EmptyRatings)))
          /\ disk = WithStore(EmptyDisk, Val(store), "default")
    /\ selectedFiles = Null
    /\ items = <<>>
    /\ history = <<>>
    /\ hasInitializedRef = FALSE
    /\ pair = <<0, 1>>
    /\ now = MAX_AGE
    /\ settings = settings0
    /\ settingTab = settingTab0
    /\ calls = <<>>
    /\ hooks = hooks0
    /\ writes = <<>>
    /\ loads = [store |-> StoreRead, files |-> "pending"]
    /\ ops = 0
    /\ last = Op("mount", 0, Out(FALSE, FALSE))

NextOrder ==
    \/ \E files \in FileLists : FilesLoaded(files)
    \/ \E winnerIndex \in {pair[1], pair[2]} : HandleWin(winnerIndex)

SpecOrder == InitOrder /\ [][NextOrder]_vars

(* The winners of the entries of a history, in its order, and the winners  *)
(* of the decisive events of a log, latest first                           *)
winnersOf(hist) == [k \in DOMAIN hist |-> hist[k].winner]
latestFirstWinners(events) ==
    LET decisive == SelectSeq(events, LAMBDA e : e.s # "0.5")
        n == Len(decisive)
    IN  [k \in 1 .. n |->
            IF decisive[n + 1 - k].s = "1" THEN decisive[n + 1 - k].a
            ELSE decisive[n + 1 - k].b]

(* C17: once the session is initialized from a store with events, and      *)
(* after any number of recordOutcome calls, the history lists the          *)
(* comparisons latest first: its entries are those of the decisive events  *)
(* between present items, in the reverse of the order of the log.          *)
C17_MostRecentFirst ==
    (loads.files = "done" /\ hasInitializedRef) =>
        winnersOf(history)
            = latestFirstWinners(presentEvents(Val(store).events,
                                               Val(selectedFiles)))

(* C18: whenever there are at least two working items, the pair is two     *)
(* different indices, each a position in the working items, and an event   *)
(* recorded among at least two items names two different ids.              *)
C18_PairDistinctValid ==
    (Len(items) >= 2) =>
        /\ pair[1] # pair[2]
        /\ HasIndex(items, pair[1])
        /\ HasIndex(items, pair[2])
        /\ (last.op = "recordOutcome" /\ last.out.acted)
               => last.out.event.a # last.out.event.b

-----------------------------------------------------------------------------
(* The pick that ends a comparison: a loaded session whose items have      *)
(* played before, and comparisons                                          *)

NextRecordPick == \E winnerIndex \in {pair[1], pair[2]} : HandleWin(winnerIndex)

SpecRecordPick == InitPick /\ [][NextRecordPick]_vars

(* C19: the pair that a recordOutcome among at least two items leaves is   *)
(* picked on the games counts as that comparison updated them: the item at *)
(* its first index has the least games count of the working items after    *)
(* the update.                                                             *)
C19_PickFromUpdatedGames ==
    [][(last'.op = "recordOutcome" /\ last'.out.acted /\ Len(items') >= 2) =>
          \A k \in DOMAIN items' :
              At(items', pair'[1]).games <= items'[k].games]_vars

(* The ratings of a store are those of the replay of its log from the      *)
(* defaults                                                                *)
ratingsReflectEvents(st) ==
    \A id \in AllIds :
        storedOrDefault(st.ratings, id)
            = storedOrDefault(replayFromDefaults(st.events, EmptyRatings), id)

(* C20: a Recompute leaves a store and working items that a further        *)
(* Recompute would leave as they are (in memory, and so in the documents   *)
(* it writes), and a Recompute on a store whose ratings are those of the   *)
(* replay of its log changes no rating.                                    *)
C20_RecomputeIdempotent ==
    [][(/\ last'.op = "recompute"
        /\ ~IsNull(store)
        /\ ~IsNull(selectedFiles)
        /\ Len(Val(selectedFiles)) > 0) =>
          LET files == Val(selectedFiles)
              again == recomputeFromEvents(Val(store'), files)
          IN  /\ again.store = Val(store')
              /\ again.items = items'
              /\ ratingsReflectEvents(Val(store)) =>
                     \A id \in AllIds :
                         storedOrDefault(Val(store').ratings, id).rating
                             = storedOrDefault(Val(store).ratings, id).rating]_vars

-----------------------------------------------------------------------------
(* The hooks useStore (part_001) and useSelectedFiles (hooks/               *)
(* useSelectedFiles.ts): a component that uses both has mounted; its        *)
(* comparison type and its settings change, it calls updateStore and        *)
(* reload (before or after it unmounts), it unmounts, and the loads and     *)
(* writes in flight settle, a write resolving or rejecting                 *)

componentVars ==
    <<store, items, pair, history, selectedFiles, hasInitializedRef, now,
      settings, settingTab, calls, writes, loads>>

(* A load that commits whatever its effect's flag says *)
commitsAlways(load) == TRUE

(* if (!cancelled): the check before each set-state of a load.  reload has *)
(* no flag.                                                                *)
commits(load) == ~load.cancelled

(* return () => { cancelled = true; }: the cleanup of every effect run so  *)
(* far (a reload belongs to no effect)                                     *)
cleanup(loadsInFlight) ==
    [k \in DOMAIN loadsInFlight |->
        IF loadsInFlight[k].effect
        THEN [loadsInFlight[k] EXCEPT !.cancelled = TRUE]
        ELSE loadsInFlight[k]]

(* A load of the effect of useStore: its flag and its readStore in flight *)
StoreLoad(comparisonType) ==
    [effect |-> TRUE, cancelled |-> FALSE, read |-> ReadTask(comparisonType)]
FileLoad(effect) == [effect |-> effect, cancelled |-> FALSE]

(* The store a caller of updateStore derives from the store it was given:  *)
(* one comparison of a and b more                                          *)
derivedStore(st, nowT) ==
    winOutcome(st, itemsWithRatings(FileList(2), st.ratings), <<0, 1>>, 0,
               nowT).store

(* The comparisonType prop changes: the effect of useStore is cleaned up   *)
(* and runs again for the new type.  The store state is left as it is.     *)
TypeChange(comparisonType) ==
    /\ ops < MaxOps
    /\ hooks.mounted
    /\ comparisonType \in Names(Types)
    /\ comparisonType # hooks.comparisonType
    /\ ops' = ops + 1
    /\ hooks' = [hooks EXCEPT
                    !.comparisonType = comparisonType,
                    !.storeLoads = Append(cleanup(@), StoreLoad(comparisonType))]
    /\ last' = Op("typeChange", comparisonType, Out(TRUE, FALSE))
    /\ UNCHANGED <<componentVars, disk>>

(* The readStore of a load of useStore gets from one position to the next; *)
(* when it returns (it catches what it reads, so the catch of the effect   *)
(* is not reached), the load sets the store unless it was cancelled        *)
StoreLoadSettles(i) ==
    /\ i \in DOMAIN hooks.storeLoads
    /\ LET load == hooks.storeLoads[i]
           r == readStoreStep(load.read, disk)
           returned == r.task.pc = "done"
           storeData == StoreOf(r.task.events, r.task.ratings)
       IN  /\ disk' = r.disk
           /\ hooks' = IF ~returned
                       THEN [hooks EXCEPT !.storeLoads[i].read = r.task]
                       ELSE IF commits(load)
                       THEN [hooks EXCEPT !.store = Some(storeData),
                                          !.loadedFor = load.read.type,
                                          !.storeLoads = RemoveAt(@, i)]
                       ELSE [hooks EXCEPT !.storeLoads = RemoveAt(@, i)]
           /\ last' = IF returned
                      THEN Op("storeLoadSettles", load,
                              Out(commits(load), FALSE))
                      ELSE Op("storeLoadReads", load, Out(FALSE, FALSE))
    /\ UNCHANGED <<componentVars, ops>>

(* updateStore(newStore), newStore being derived from the store the hook   *)
(* returned or the empty default: setStore, then writeStore under the      *)
(* comparison type of the render that made the callback.  The callback     *)
(* has no check of its own: called after the unmount (the callback of the  *)
(* last render) it calls setStore and writes all the same.                 *)
UpdateStore(derived) ==
    /\ ops < MaxOps
    /\ derived => ~IsNull(hooks.store)
    /\ ops' = ops + 1
    /\ LET newStore == IF derived THEN derivedStore(Val(hooks.store), now)
                       ELSE EmptyStore
           from == IF derived THEN hooks.loadedFor ELSE "none"
           task == [type |-> hooks.comparisonType, store |-> newStore,
                    loadedFor |-> from, pc |-> "events"]
       IN  /\ hooks' = [hooks EXCEPT !.store = Some(newStore),
                                     !.loadedFor = from,
                                     !.writes = Append(@, task)]
           /\ last' = Op("updateStore", task, Out(TRUE, FALSE))
    /\ UNCHANGED <<componentVars, disk>>

(* One document write of a writeStore of updateStore settling: it         *)
(* resolves (ok) and the document is written, or the adapter rejects, the  *)
(* document stays as it was, writeStore throws and the catch of            *)
(* updateStore (lines 41-43) ends the call                                 *)
HookWriteStep(i, ok) ==
    /\ i \in DOMAIN hooks.writes
    /\ LET task == hooks.writes[i]
       IN  /\ disk' = IF ~ok THEN disk
                      ELSE IF task.pc = "events"
                      THEN writeEvents(disk, task.store.events, task.type)
                      ELSE writeRatings(disk, task.store.ratings, task.type)
           /\ hooks' = IF ~ok \/ task.pc = "ratings"
                       THEN [hooks EXCEPT !.writes = RemoveAt(@, i)]
                       ELSE [hooks EXCEPT !.writes[i].pc = "ratings"]
           /\ last' = Op("hookWrite", task, Out(ok, FALSE))
    /\ UNCHANGED <<componentVars, ops>>

(* The settings (or vault, metadata, defaultPool) change: the effect of    *)
(* useSelectedFiles is cleaned up and runs again                           *)
FilesEffect ==
    /\ ops < MaxOps
    /\ hooks.mounted
    /\ ops' = ops + 1
    /\ hooks' = [hooks EXCEPT !.loading = TRUE,
                              !.error = Null,
                              !.fileLoads = Append(cleanup(@), FileLoad(TRUE))]
    /\ last' = Op("filesEffect", 0, Out(TRUE, FALSE))
    /\ UNCHANGED <<componentVars, disk>>

(* reload(): it has no flag and no check, and runs the same when called    *)
(* after the unmount                                                       *)
Reload ==
    /\ ops < MaxOps
    /\ ops' = ops + 1
    /\ hooks' = [hooks EXCEPT !.loading = TRUE,
                              !.error = Null,
                              !.fileLoads = Append(@, FileLoad(FALSE))]
    /\ last' = Op("reload", 0, Out(TRUE, FALSE))
    /\ UNCHANGED <<componentVars, disk>>

(* convertFilesToSelectedFiles of a load resolving with files, or          *)
(* rejecting                                                               *)
FileLoadSettles(i, files, rejects) ==
    /\ i \in DOMAIN hooks.fileLoads
    /\ LET load == hooks.fileLoads[i]
           rest == [hooks EXCEPT !.fileLoads = RemoveAt(@, i)]
       IN  /\ hooks' = IF ~commits(load) THEN rest
                       ELSE IF rejects
                       THEN [rest EXCEPT !.error = Some("error"),
                                         !.loading = FALSE]
                       ELSE [rest EXCEPT !.selectedFiles = Some(files),
                                         !.loading = FALSE]
           /\ last' = Op("fileLoadSettles", load, Out(commits(load), FALSE))
    /\ UNCHANGED <<componentVars, disk, ops>>

(* The component unmounts: both effects are cleaned up *)
Unmount ==
    /\ ops < MaxOps
    /\ hooks.mounted
    /\ ops' = ops + 1
    /\ hooks' = [hooks EXCEPT !.mounted = FALSE,
                              !.storeLoads = cleanup(@),
                              !.fileLoads = cleanup(@)]
    /\ last' = Op("unmount", 0, Out(TRUE, FALSE))
    /\ UNCHANGED <<componentVars, disk>>

(* After the first render: both effects have run *)
InitHooks ==
    /\ store = Null
    /\ items = <<>>
    /\ pair = <<0, 1>>
    /\ history = <<>>
    /\ selectedFiles = Null
    /\ hasInitializedRef = FALSE
    /\ now = MAX_AGE
    /\ disk \in SessionDisks
    /\ settings = settings0
    /\ settingTab = settingTab0
    /\ calls = <<>>
    /\ writes = <<>>
    /\ loads = [store |-> ReadTask("default"), files |-> "pending"]
    /\ hooks = [hooks0 EXCEPT !.mounted = TRUE,
                              !.storeLoads = <<StoreLoad("default")>>,
                              !.loading = TRUE,
                              !.fileLoads = <<FileLoad(TRUE)>>]
    /\ ops = 0
    /\ last = Op("mount", 0, Out(FALSE, FALSE))

(* The files a load resolves with are looked at only when it commits *)
NextHooks ==
    \/ \E k \in DOMAIN Types : TypeChange(Types[k])
    \/ \E i \in DOMAIN hooks.storeLoads : StoreLoadSettles(i)
    \/ \E derived \in BOOLEAN : UpdateStore(derived)
    \/ \E i \in DOMAIN hooks.writes, ok \in BOOLEAN : HookWriteStep(i, ok)
    \/ FilesEffect
    \/ Reload
    \/ \E i \in DOMAIN hooks.fileLoads :
          \E files \in IF commits(hooks.fileLoads[i]) THEN FileLists
                        ELSE {<<>>} :
              FileLoadSettles(i, files, FALSE)
    \/ \E i \in DOMAIN hooks.fileLoads : FileLoadSettles(i, <<>>, TRUE)
    \/ Unmount

SpecHooks == InitHooks /\ [][NextHooks]_vars

(* C21: every store that useStore writes to the documents of a comparison  *)
(* type was derived from a store loaded for that type, or from the empty   *)
(* default; data loaded for the type before a change is not written under  *)
(* the paths of the type after it.                                         *)
C21_WritesStayInType ==
    [][(last'.op = "hookWrite" /\ last'.out.acted) =>
          last'.arg.loadedFor \in {last'.arg.type, "none"}]_vars

(* C26: a store load or a file load whose effect was cleaned up before it  *)
(* completed commits nothing when it completes: the store, the selected    *)
(* files, the loading flag and the error are as they were, whatever ran    *)
(* between the cleanup and the completion.                                 *)
C26_StaleLoadCommitsNothing ==
    [][(/\ last'.op \in {"storeLoadSettles", "fileLoadSettles"}
        /\ last'.arg.effect
        /\ last'.arg.cancelled) =>
          /\ hooks'.store = hooks.store
          /\ hooks'.selectedFiles = hooks.selectedFiles
          /\ hooks'.loading = hooks.loading
          /\ hooks'.error = hooks.error]_vars

(* The load for 'default' completing after the type changed to 'books' and *)
(* the load for 'books' had committed its store                            *)
C26_Witness ==
    /\ last.op = "storeLoadSettles"
    /\ last.arg.cancelled
    /\ last.arg.read.type = "default"
    /\ hooks.comparisonType = "books"
    /\ hooks.storeLoads = <<>>
    /\ hooks.store = Some(StoreAB)
    /\ hooks.loadedFor = "books"

-----------------------------------------------------------------------------
(* The session under fair scheduling: a load in flight completes and a     *)
(* write in flight settles; the user clicks or does not                    *)

SpecLive ==
    /\ Init
    /\ [][Next]_vars
    /\ WF_vars(StoreLoaded)
    /\ WF_vars(\E files \in FileLists : FilesLoaded(files))
    /\ WF_vars(\E i \in DOMAIN writes : WriteStep(i, TRUE))

(* The second of the two loads has just completed, with at least one file *)
bothLoadsJustCompleted ==
    /\ last.op \in {"storeLoaded", "filesLoaded"}
    /\ loads.store.pc = "done"
    /\ loads.files = "done"
    /\ Len(Val(selectedFiles)) > 0

(* The initial merge has been performed on the store in memory *)
itemsCarryStored ==
    /\ ~IsNull(store)
    /\ \A k \in DOMAIN items :
          LET stored == storedOrDefault(Val(store).ratings, items[k].id)
          IN  items[k].rating = stored.rating /\ items[k].games = stored.games

initialMergeDone ==
    hasInitializedRef /\ itemsCarryStored

(* C22: when the store load and the files load have both completed, in     *)
(* either order, with at least one file, the initial merge is eventually   *)
(* performed: the flag is set and every item carries the rating and games  *)
(* of its record in the store, or 1000 and 0 without one.                  *)
C22_InitialMergeHappens ==
    bothLoadsJustCompleted ~> initialMergeDone

-----------------------------------------------------------------------------
(* The log after an append, said by positions: of the positions of the log *)
(* with the new event at its end whose event is younger than MAX_AGE, the  *)
(* ones followed by fewer than MAX_EVENTS younger ones are kept, and the   *)
(* event at a kept position stands as far from the end of the new log as   *)
(* there are younger ones after it                                         *)

youngPositions(events, nowT) ==
    {i \in DOMAIN events : nowT - events[i].t < MAX_AGE}

holdsRecentOf(log, events, nowT) ==
    LET young == youngPositions(events, nowT)
        after == [i \in young |-> Cardinality({j \in young : j > i})]
        kept == {i \in young : after[i] < MAX_EVENTS}
    IN  /\ Len(log) = Cardinality(kept)
        /\ \A i \in kept : log[Len(log) - after[i]] = events[i]

(* C23 (SpecLog): when handleWin records a comparison, the log of the new  *)
(* store is the old log with the new event at its end, first without the   *)
(* events 30 days or more older than the time of the append, then cut to   *)
(* its last 200: the events kept stand in their old order, and an event    *)
(* younger than 30 days is dropped only if 200 or more younger-than-30-day *)
(* events follow it.                                                       *)
C23_LogAfterAppend ==
    [][(last'.op = "recordOutcome" /\ last'.out.acted) =>
          LET all == Append(Val(store).events, last'.out.event)
          IN  holdsRecentOf(Val(store').events, all, now)]_vars

(* An append to a stored log of MAX_EVENTS + 1 events whose first has aged *)
(* out: the aged event went by its age and the oldest young one by the cut *)
C23_Witness ==
    /\ last.op = "recordOutcome"
    /\ last.out.acted
    /\ ops = 1
    /\ Len(readEvents(disk, "default")) = MAX_EVENTS + 1
    /\ now - readEvents(disk, "default")[1].t >= MAX_AGE
    /\ now - readEvents(disk, "default")[2].t < MAX_AGE
    /\ Len(Val(store).events) = MAX_EVENTS
    /\ Val(store).events[1] = readEvents(disk, "default")[3]

-----------------------------------------------------------------------------
(* The items other than the one at index first, as the list that a stable  *)
(* sort by games ascending makes of them: by games, and by index among     *)
(* equal games                                                             *)
othersByGames(its, first) ==
    LET others == Indices(its) \ {first}
        m == Cardinality(others)
    IN  CHOOSE sorted \in [1 .. m -> others] :
            \A k \in 1 .. m - 1 :
                \/ At(its, sorted[k]).games < At(its, sorted[k + 1]).games
                \/ /\ At(its, sorted[k]).games = At(its, sorted[k + 1]).games
                   /\ sorted[k] < sorted[k + 1]

(* C24 (SpecPick): for a list of n >= 2 items the second index of a pick   *)
(* is one of the first ceil((n - 1) / 2) entries of the other n - 1 items  *)
(* sorted by games ascending, ties in index order, whatever Math.random()  *)
(* returned.                                                               *)
C24_SecondFromLowerHalf ==
    (last.op = "skip" /\ Len(items) >= 2) =>
        LET sorted == othersByGames(items, pair[1])
            n == Len(items)
            half == IF (n - 1) % 2 = 0 THEN (n - 1) \div 2
                    ELSE (n - 1) \div 2 + 1
        IN  \E k \in 1 .. half : sorted[k] = pair[2]

(* A pick among three items whose first has played least and whose others  *)
(* are level: the second index is the earlier of the two                   *)
C24_Witness ==
    /\ last.op = "skip"
    /\ Len(items) = 3
    /\ items[1].games < items[2].games
    /\ items[2].games = items[3].games
    /\ pair = <<0, 1>>

-----------------------------------------------------------------------------
(* Removals: a loaded session of up to MaxItems items, the Skip and Remove *)
(* buttons                                                                 *)

NextRemove ==
    \/ Skip
    \/ \E index \in {pair[1], pair[2]} : RemoveItem(index)

SpecRemove == InitPick /\ [][NextRemove]_vars

(* C25 (SpecRemove): removeItem(index) takes exactly the item at index out *)
(* of the working list, the others staying in their order; the store in    *)
(* memory, the documents on disk, the writes in flight and the history     *)
(* stay as they were; the pair becomes (0, 1) when two or more items       *)
(* remain and (0, 0) otherwise.                                            *)
C25_RemoveOnlyTheItem ==
    [][(last'.op = "removeItem") =>
          LET index == last'.arg
              gone == IF HasIndex(items, index) THEN 1 ELSE 0
          IN  /\ Len(items') = Len(items) - gone
              /\ \A i \in Indices(items') :
                    At(items', i) = IF i < index THEN At(items, i)
                                    ELSE At(items, i + 1)
              /\ store' = store
              /\ disk' = disk
              /\ writes' = writes
              /\ history' = history
              /\ pair' = IF Len(items') >= 2 THEN <<0, 1>> ELSE <<0, 0>>]_vars

(* The middle one of three items removed after a pick of (2, 1): the first *)
(* and the third remain and the pair is (0, 1)                             *)
C25_Witness ==
    /\ last.op = "removeItem"
    /\ last.arg = 1
    /\ ops = 2
    /\ Len(items) = 2
    /\ items[1].id = FileList(3)[1].id
    /\ items[2].id = FileList(3)[3].id
    /\ pair = <<0, 1>>

-----------------------------------------------------------------------------
(* Writes that may fail: a loaded session on two files, comparisons and    *)
(* resets, and every adapter write in flight resolving or rejecting        *)

NextFailingWrites ==
    \/ \E winnerIndex \in {pair[1], pair[2]} : HandleWin(winnerIndex)
    \/ \E confirmed \in BOOLEAN : ResetClick(confirmed)
    \/ \E i \in DOMAIN writes : \E ok \in BOOLEAN : WriteStep(i, ok)

SpecFailingWrites == InitWrites /\ [][NextFailingWrites]_vars

(* C27 (SpecFailingWrites): a document write that rejects ends its         *)
(* persistStore without a throw: the store in memory stays the store that  *)
(* was being written, nothing else of the session changes, and a reset     *)
(* that awaited it still runs to its end.  The handlers that follow work   *)
(* from the store in memory: a recorded comparison appends to its log and  *)
(* a confirmed reset replaces it by the empty store.                       *)
C27_FailedWriteKeepsSession ==
    [][/\ (last'.op = "write" /\ ~last'.arg.ok) =>
             /\ store' = store
             /\ disk' = disk
             /\ pair' = pair
             /\ Len(writes') = Len(writes) - 1
             /\ IF last'.arg.then = "reset"
                THEN /\ history' = <<>>
                     /\ ~hasInitializedRef'
                     /\ items' = resetItems(Val(selectedFiles))
                ELSE /\ history' = history
                     /\ items' = items
                     /\ hasInitializedRef' = hasInitializedRef
       /\ (last'.op = "recordOutcome") =>
             /\ last'.out.acted
             /\ Val(store').events = Append(Val(store).events, last'.out.event)
             /\ Len(writes') = Len(writes) + 1
             /\ writes'[Len(writes')].store = Val(store')
       /\ (last'.op = "reset" /\ last'.arg) =>
             /\ store' = Some(EmptyStore)
             /\ writes'[Len(writes')].store = EmptyStore]_vars

(* Two comparisons on an empty store, the write of the first having        *)
(* rejected before the second: the log in memory holds both events and the *)
(* events document none                                                    *)
C27_Witness ==
    /\ last.op = "recordOutcome"
    /\ last.out.acted
    /\ ops = 2
    /\ Len(Val(store).events) = 2
    /\ Len(writes) = 1
    /\ readEvents(disk, "default") = <<>>

-----------------------------------------------------------------------------
(* Shapes: readEvents and readRatings called on documents of every shape   *)
(* JSON.parse can return, and on absent and unparsable ones                *)

ShapeDocs ==
    {AbsentDoc, CorruptDoc, NumberDoc, StringDoc, NullDoc,
     stringifyEvents(StoreAB.events), stringifyRatings(StoreAB.ratings)}

ShapeDisks ==
    {[EmptyDisk EXCEPT ![getEventsPath("default")] = e,
                       ![getRatingsPath("default")] = r] :
        e \in ShapeDocs, r \in ShapeDocs}

ReadEvents(comparisonType) ==
    /\ ops < MaxOps
    /\ ops' = ops + 1
    /\ last' = Op("readEvents", comparisonType, readEvents(disk, comparisonType))
    /\ UNCHANGED <<store, items, pair, history, selectedFiles,
                   hasInitializedRef, now, disk, settings, settingTab, calls, hooks, writes, loads>>

ReadRatings(comparisonType) ==
    /\ ops < MaxOps
    /\ ops' = ops + 1
    /\ last' = Op("readRatings", comparisonType, readRatings(disk, comparisonType))
    /\ UNCHANGED <<store, items, pair, history, selectedFiles,
                   hasInitializedRef, now, disk, settings, settingTab, calls, hooks, writes, loads>>

InitShapes ==
    /\ disk \in ShapeDisks
    /\ store = Null
    /\ items = <<>>
    /\ pair = <<0, 1>>
    /\ history = <<>>
    /\ selectedFiles = Null
    /\ hasInitializedRef = FALSE
    /\ now = MAX_AGE
    /\ settings = settings0
    /\ settingTab = settingTab0
    /\ calls = <<>>
    /\ hooks = hooks0
    /\ writes = <<>>
    /\ loads = [store |-> ReadTask("default"), files |-> "pending"]
    /\ ops = 0
    /\ last = Op("mount", 0, Out(FALSE, FALSE))

NextShapes ==
    \/ \E k \in DOMAIN Types : ReadEvents(Types[k])
    \/ \E k \in DOMAIN Types : ReadRatings(Types[k])

SpecShapes == InitShapes /\ [][NextShapes]_vars

(* C29 (SpecShapes): a document that parses as JSON to a value of the      *)
(* wrong shape reads as the empty default: readEvents returns the empty    *)
(* list for every value that is not an array, and readRatings the empty    *)
(* mapping for every value that is not an object mapping ids to records,   *)
(* arrays, numbers, strings and null included.                             *)
C29_WrongShapeReadsEmpty ==
    /\ (/\ last.op = "readEvents"
        /\ exists(disk, getEventsPath(last.arg))
        /\ parses(disk, getEventsPath(last.arg))
        /\ disk[getEventsPath(last.arg)].kind # "array")
          => last.out = <<>>
    /\ (/\ last.op = "readRatings"
        /\ exists(disk, getRatingsPath(last.arg))
        /\ parses(disk, getRatingsPath(last.arg))
        /\ disk[getRatingsPath(last.arg)].kind # "object")
          => last.out = EmptyRatings

-----------------------------------------------------------------------------
(* The documents of 'default' against the store in memory *)
eventsDocIsNew ==
    disk[getEventsPath("default")] = stringifyEvents(Val(store).events)
ratingsDocIsNew ==
    disk[getRatingsPath("default")] = stringifyRatings(Val(store).ratings)

(* C28 (SpecFailingWrites): writeStore writes the events document first    *)
(* and the ratings document second.  Its events write leaves the ratings   *)
(* document alone, and when it rejects nothing is written and the call     *)
(* ends; the mkdir of writeRatings writes nothing; its ratings write       *)
(* leaves the events document alone.  While the first writeStore of a      *)
(* session runs, the ratings document holds the new ratings only if the    *)
(* events document holds the new events.                                   *)
C28_EventsBeforeRatings ==
    [][(last'.op = "write") =>
          /\ (last'.arg.pc = "events") =>
                /\ disk'[getRatingsPath("default")] = disk[getRatingsPath("default")]
                /\ ~last'.arg.ok => (disk' = disk /\ last'.arg.done)
          /\ (last'.arg.pc = "stringify") => disk' = disk
          /\ (last'.arg.pc = "ratings") =>
                disk'[getEventsPath("default")] = disk[getEventsPath("default")]
          /\ (ops = 1 /\ ~ratingsDocIsNew /\ ratingsDocIsNew') => eventsDocIsNew']_vars

(* The first writeStore of a session between its two writes: the events    *)
(* document holds the new log and the ratings document the old table       *)
C28_Witness ==
    /\ last.op = "write"
    /\ last.arg.pc = "events"
    /\ last.arg.ok
    /\ ops = 1
    /\ Len(writes) = 1
    /\ Len(Val(store).events) > 0
    /\ eventsDocIsNew
    /\ ~ratingsDocIsNew

-----------------------------------------------------------------------------
(* C30 (SpecConfirm): once the user has deleted comparison type T and the  *)
(* settings tab has redrawn, for any T, 'default' included, neither the    *)
(* events document nor the ratings document of T exists, T is not among    *)
(* the configured types, and readStore(T) returns the empty store.         *)
C30_DeletedTypeIsGone ==
    (last.op = "deleteType" /\ last.out.acted) =>
        LET typeName == last.arg.type
        IN  /\ ~exists(disk, getEventsPath(typeName))
            /\ ~exists(disk, getRatingsPath(typeName))
            /\ typeName \notin Names(settings.typeConfigs)
            /\ readStore(disk, typeName).store = EmptyStore

=============================================================================
